---- MODULE Spec2Model ----
(***************************************************************************)
(* Terraform provider for InfluxDB V3 (databases and tokens).              *)
(*                                                                         *)
(* The sources hold two generations of the provider:                       *)
(*   "sdk"  - resources built on the internal client internal/sdk/influxdb3*)
(*            (client.go, config.go, database_resource.go,                 *)
(*            token_resource.go, the older Configure with a url setting);  *)
(*   "oapi" - resources built on the generated OpenAPI client, which test  *)
(*            the response status themselves (the later DatabaseResource   *)
(*            and TokenResource, provider.go with the retry client).       *)
(* Definitions of the first generation carry the suffix Sdk where both     *)
(* generations define the same name.                                       *)
(*                                                                         *)
(* Values.  An optional value is a sequence of length 0 or 1.  An error    *)
(* message is the sequence of the pieces it is formatted from, a number    *)
(* being the piece ToString(number); the empty sequence is a nil error.    *)
(* A 64-bit integer v is the record [hi, lo] with v = hi * 2^32 + lo and   *)
(* lo the signed 32-bit value int32(v).                                    *)
(***************************************************************************)
EXTENDS Integers, Sequences, FiniteSets, TLC

VARIABLES impl,        \* generation of the provider under analysis
          managed,     \* the resource type of the managed resource instance
          srvDbs,      \* server: the databases of the cluster, in list order
          srvTokens,   \* server: the tokens of the cluster, in list order
          srvNextId,   \* server: index of the next token id it assigns
          dbState,     \* Terraform state of the database resource instance
          tokState,    \* Terraform state of the token resource instance
          pending,     \* resource operations the framework has planned
          last,        \* record of the last handler call
          prov,        \* result of the last provider Configure
          http,        \* the client and the HTTP exchanges of its current call
          conc         \* the shared client and the operations running over it

vars == <<impl, managed, srvDbs, srvTokens, srvNextId, dbState, tokState, pending, last, prov,
          http, conc>>

None == <<>>
Some(x) == <<x>>
NoErr == <<>>

(***************************************************************************)
(* Bounds of the model.                                                    *)
(***************************************************************************)
MaxTokens == 1       \* token ids the server assigns in one behaviour

(***************************************************************************)
(* HTTP status codes used by the code.                                     *)
(***************************************************************************)
StatusOK == 200
StatusNoContent == 204
StatusBadRequest == 400
StatusNotFound == 404

Statuses == {StatusOK, StatusNoContent, StatusBadRequest, StatusNotFound}

Impls == {"sdk", "oapi"}

(***************************************************************************)
(* 64-bit and 32-bit integers.                                             *)
(***************************************************************************)
I64(hi, lo) == [hi |-> hi, lo |-> lo]

\* a conversion that saturates: a value above the 32-bit range becomes the
\* largest 32-bit number, a value below it the smallest but one
ToInt32Saturating(v) ==
    IF v.hi = 0 THEN v.lo ELSE IF v.hi > 0 THEN 2147483647 ELSE -2147483647

\* int32(v) of an int64 v: the low 32 bits, signed
ToInt32(v) == v.lo

\* int64(x) of an int32 x
FromInt32(x) == I64(0, x)

\* int(v) of an int64 v on the 64-bit builds of the provider
ToInt(v) == v

AccountId == "acc-uuid"
ClusterId == "clu-uuid"

(***************************************************************************)
(* JSON texts of bucket partition template values.  json.Unmarshal into    *)
(* the struct {NumberOfBuckets, TagName} keeps these two keys only;        *)
(* json.Marshal of the decoded map writes the keys in sorted order.        *)
(***************************************************************************)
BucketCanonical == "{\"numberOfBuckets\":10,\"tagName\":\"temperature\"}"
BucketReordered == "{\"tagName\":\"temperature\",\"numberOfBuckets\":10}"
NotJson == "temperature"

NoObj == [nb |-> 0, tag |-> ""]

\* json.Unmarshal([]byte(s), &encodedJSONData)
UnmarshalBucket(s) ==
    IF s \in {BucketCanonical, BucketReordered}
    THEN [err |-> NoErr, obj |-> [nb |-> 10, tag |-> "temperature"]]
    ELSE [err |-> <<"invalid character">>, obj |-> NoObj]

\* json.Marshal(partitionTemplate["value"]) of a decoded object
MarshalBucket(obj) ==
    IF obj = [nb |-> 10, tag |-> "temperature"] THEN BucketCanonical
    ELSE "{}"

(***************************************************************************)
(* Partition template parts.  In Terraform a part is [type, value] with    *)
(* two strings.  On the wire of the generated client a part is a union:    *)
(* [type, vkind, str, obj] with vkind "string" or "object".                *)
(***************************************************************************)
Part(t, v) == [type |-> t, value |-> v]

WireString(t, s) == [type |-> t, vkind |-> "string", str |-> s, obj |-> NoObj]
WireObject(t, o) == [type |-> t, vkind |-> "object", str |-> "", obj |-> o]
WireEmpty == [type |-> "", vkind |-> "none", str |-> "", obj |-> NoObj]

RECURSIVE MapSeq(_, _)
MapSeq(Op(_), s) == IF s = <<>> THEN <<>> ELSE <<Op(Head(s))>> \o MapSeq(Op, Tail(s))

RECURSIVE FlatMapSeq(_, _)
FlatMapSeq(Op(_), s) == IF s = <<>> THEN <<>> ELSE Op(Head(s)) \o FlatMapSeq(Op, Tail(s))

\* a loop body that passes over the bucket parts
getPartitionTemplatePartNoBucket(w) ==
    IF w.type \in {"time", "tag"} /\ w.vkind = "string" THEN <<Part(w.type, w.str)>> ELSE <<>>

\* one iteration of the loop of getPartitionTemplate: the models appended
getPartitionTemplatePart(w) ==
    IF w.type \in {"time", "tag"}
    THEN IF w.vkind = "string" THEN <<Part(w.type, w.str)>> ELSE <<>>
    ELSE IF w.type = "bucket"
         THEN <<Part(w.type, IF w.vkind = "object" THEN MarshalBucket(w.obj)
                             ELSE IF w.vkind = "string" THEN "\"" \o w.str \o "\""
                             ELSE "null")>>
         ELSE <<>>

\* getPartitionTemplate of the generated-client generation: nil stays nil
getPartitionTemplate(pt) ==
    IF pt = None THEN None
    ELSE Some(FlatMapSeq(getPartitionTemplatePart, pt[1]))

\* getPartitionTemplate of the internal-SDK generation: always a non-nil slice
getPartitionTemplateSdk(pt) ==
    IF pt = None THEN Some(<<>>) ELSE Some(pt[1])

(***************************************************************************)
(* The management API server (the environment).  It stores what it is sent *)
(* and returns what it stores; a database without template parts has no    *)
(* custom template and its responses carry none.  The outcome x of an      *)
(* exchange is chosen by the environment: a transport error, or a status   *)
(* (with a body that may fail to decode).  The server applies a            *)
(* request exactly when it answers 200, or 204 to a DELETE.  A request for *)
(* an object that does not exist is answered 404, a POST of a database     *)
(* name that exists is answered 400.                                       *)
(***************************************************************************)
Outcome(t, s, g) == [transport |-> t, status |-> s, garbled |-> g]

TransportError == Outcome(TRUE, 0, FALSE)

\* the outcomes with a status of allowed; the body of a response with a
\* status of garble may fail to decode
Outcomes(allowed, garble) ==
    {TransportError} \cup {Outcome(FALSE, s, FALSE) : s \in allowed}
                     \cup {Outcome(FALSE, s, TRUE) : s \in allowed \cap garble}

\* the typed error body of a response with an error status
ErrorBody(code) == [code |-> code, message |-> "message"]

Request(m, p, b) == [method |-> m, path |-> p, body |-> b]

Response(x, b) ==
    [transport |-> x.transport, status |-> x.status,
     body |-> IF ~x.transport /\ x.status = StatusOK /\ ~x.garbled THEN b ELSE None,
     error |-> IF ~x.transport /\ x.status >= StatusBadRequest /\ ~x.garbled
               THEN Some(ErrorBody(x.status)) ELSE None]

Applied(req, x) ==
    /\ ~x.transport
    /\ \/ x.status = StatusOK
       \/ req.method = "DELETE" /\ x.status = StatusNoContent

RECURSIVE IndexOf(_, _, _)
\* index of the first element of s from position i on for which s[k].key = v ... 0 if none
IndexOf(s, v, i) ==
    IF i > Len(s) THEN 0
    ELSE IF s[i].key = v THEN i ELSE IndexOf(s, v, i + 1)

RemoveAt(s, i) == SubSeq(s, 1, i - 1) \o SubSeq(s, i + 1, Len(s))

DbKeys(dbs) == [i \in 1..Len(dbs) |-> [key |-> dbs[i].name]]

DbIndex(dbs, name) == IndexOf(DbKeys(dbs), name, 1)

DatabaseAPIPath == "databases"
TokenAPIPath == "tokens"

\* path.Join(a, b): an empty element is dropped
PathJoin(a, b) == IF b = "" THEN <<a>> ELSE <<a, b>>

\* statuses the server can answer a database request with
DbAllowed(req, dbs) ==
    IF req.method = "POST"
    THEN IF DbIndex(dbs, req.body[1].name) # 0 THEN {StatusBadRequest} ELSE Statuses
    ELSE IF Len(req.path) = 2
         THEN IF DbIndex(dbs, req.path[2]) = 0 THEN {StatusNotFound} ELSE Statuses
         ELSE IF req.method = "GET" THEN Statuses ELSE {StatusNotFound}

NormalTemplate(pt) == IF pt = None \/ pt = Some(<<>>) THEN None ELSE pt

\* the database the server stores for a POST body
StoredDb(b) ==
    [accountId |-> AccountId, clusterId |-> ClusterId, name |-> b.name,
     maxTables |-> b.maxTables, maxColumnsPerTable |-> b.maxColumnsPerTable,
     retentionPeriod |-> b.retentionPeriod,
     partitionTemplate |-> NormalTemplate(b.partitionTemplate)]

\* the database after a PATCH body: the template is kept
PatchedDb(db, b) ==
    [db EXCEPT !.maxTables = b.maxTables,
               !.maxColumnsPerTable = b.maxColumnsPerTable,
               !.retentionPeriod = b.retentionPeriod]

\* the server's answer to a database request and its databases afterwards
ServerDb(req, x, dbs) ==
    LET i == IF Len(req.path) = 2 THEN DbIndex(dbs, req.path[2]) ELSE 0 IN
    IF ~Applied(req, x) THEN [resp |-> Response(x, None), dbs |-> dbs]
    ELSE IF req.method = "POST"
         THEN LET db == StoredDb(req.body[1]) IN
              [resp |-> Response(x, Some(db)), dbs |-> Append(dbs, db)]
    ELSE IF req.method = "PATCH"
         THEN LET db == PatchedDb(dbs[i], req.body[1]) IN
              [resp |-> Response(x, Some(db)), dbs |-> [dbs EXCEPT ![i] = db]]
    ELSE IF req.method = "DELETE"
         THEN [resp |-> Response(x, None), dbs |-> RemoveAt(dbs, i)]
    ELSE [resp |-> Response(x, Some(dbs)), dbs |-> dbs]

(***************************************************************************)
(* internal/sdk/influxdb3: the internal client.                            *)
(***************************************************************************)
UnexpectedStatus(code) == <<"unexpected status code: ", ToString(code)>>

\* makeAPICall accepting every 2xx status
makeAPICallAny2xx(resp) ==
    IF resp.transport THEN [body |-> None, err |-> <<"transport error">>]
    ELSE IF resp.status \notin {StatusOK, StatusNoContent}
         THEN [body |-> None, err |-> UnexpectedStatus(resp.status)]
         ELSE [body |-> resp.body, err |-> NoErr]

\* makeAPICall, from the response on: the body it returns and its error
makeAPICall(resp) ==
    IF resp.transport THEN [body |-> None, err |-> <<"transport error">>]
    ELSE IF resp.status # StatusOK
         THEN [body |-> None, err |-> UnexpectedStatus(resp.status)]
         ELSE [body |-> resp.body, err |-> NoErr]

\* json.Unmarshal of a response body
Unmarshal(body) ==
    IF body = None THEN <<"error unmarshalling JSON: ", "unexpected end of JSON input">>
    ELSE NoErr

Call(req, ex, value, err) ==
    [req |-> req, resp |-> ex.resp, srv |-> ex.dbs, value |-> value, err |-> err]

\* CreateDatabase without the rewriting of the 400 error
CreateDatabaseGeneric(params, x, dbs) ==
    LET req == Request("POST", <<DatabaseAPIPath>>, Some(params))
        ex == ServerDb(req, x, dbs)
        r == makeAPICall(ex.resp)
    IN  IF r.err # NoErr THEN Call(req, ex, None, r.err)
        ELSE IF Unmarshal(r.body) # NoErr THEN Call(req, ex, None, Unmarshal(r.body))
        ELSE Call(req, ex, r.body, NoErr)

CreateDatabase(params, x, dbs) ==
    LET req == Request("POST", <<DatabaseAPIPath>>, Some(params))
        ex == ServerDb(req, x, dbs)
        r == makeAPICall(ex.resp)
    IN  IF r.err # NoErr
        THEN IF r.err = UnexpectedStatus(StatusBadRequest)
             THEN Call(req, ex, None, <<"bad request, check your input">>)
             ELSE Call(req, ex, None, r.err)
        ELSE IF Unmarshal(r.body) # NoErr THEN Call(req, ex, None, Unmarshal(r.body))
        ELSE Call(req, ex, r.body, NoErr)

DeleteDatabase(databaseName, x, dbs) ==
    LET req == Request("DELETE", PathJoin(DatabaseAPIPath, databaseName), None)
        ex == ServerDb(req, x, dbs)
        r == makeAPICall(ex.resp)
    IN  IF r.err # NoErr
        THEN IF r.err = UnexpectedStatus(StatusNoContent)
             THEN Call(req, ex, None, NoErr)
             ELSE Call(req, ex, None, <<"error deleting database: ">> \o r.err)
        ELSE Call(req, ex, None, NoErr)

GetDatabases(x, dbs) ==
    LET req == Request("GET", <<DatabaseAPIPath>>, None)
        ex == ServerDb(req, x, dbs)
        r == makeAPICall(ex.resp)
    IN  IF r.err # NoErr THEN Call(req, ex, None, r.err)
        ELSE IF Unmarshal(r.body) # NoErr THEN Call(req, ex, None, Unmarshal(r.body))
        ELSE Call(req, ex, r.body, NoErr)

GetDatabaseByName(databaseName, x, dbs) ==
    LET c == GetDatabases(x, dbs) IN
    IF c.err # NoErr THEN c
    ELSE LET i == DbIndex(c.value[1], databaseName) IN
         IF i # 0 THEN [c EXCEPT !.value = Some(c.value[1][i])]
         ELSE [c EXCEPT !.value = None,
                        !.err = <<"error getting database: ", databaseName, " not found">>]

UpdateDatabase(params, x, dbs) ==
    LET req == Request("PATCH", PathJoin(DatabaseAPIPath, params.name), Some(params))
        ex == ServerDb(req, x, dbs)
        r == makeAPICall(ex.resp)
    IN  IF r.err # NoErr THEN Call(req, ex, None, r.err)
        ELSE IF Unmarshal(r.body) # NoErr THEN Call(req, ex, None, Unmarshal(r.body))
        ELSE Call(req, ex, r.body, NoErr)

(***************************************************************************)
(* Terraform state and plan of a database: the struct DatabaseModel.       *)
(* partition_template is None for a null list and Some(parts) otherwise.   *)
(***************************************************************************)
Unknown == "(known after apply)"
NullString == "(null)"

DatabaseModel(acc, clu, name, mt, mc, rp, pt) ==
    [account_id |-> acc, cluster_id |-> clu, name |-> name, max_tables |-> mt,
     max_columns_per_table |-> mc, retention_period |-> rp, partition_template |-> pt]

Diag(summary, detail) == [summary |-> summary, detail |-> detail]

\* what a handler leaves behind: the state it wrote (or the untouched prior
\* state), its diagnostics, its exchanges and the server afterwards
Result(state, diags, calls, srv, panicked) ==
    [state |-> state, diags |-> diags, calls |-> calls, srv |-> srv, panicked |-> panicked]

Exchange(c) == [req |-> c.req, resp |-> c.resp, err |-> c.err]

(***************************************************************************)
(* DatabaseResource of the internal-SDK generation (database_resource.go). *)
(***************************************************************************)
DatabaseCreateSdk(plan, x, dbs) ==
    LET partitions == IF plan.partition_template = None THEN <<>>
                      ELSE plan.partition_template[1]
        createDatabase == [name |-> plan.name,
                           maxTables |-> ToInt(plan.max_tables),
                           maxColumnsPerTable |-> ToInt(plan.max_columns_per_table),
                           retentionPeriod |-> plan.retention_period,
                           partitionTemplate |-> Some(partitions)]
        c == CreateDatabase(createDatabase, x, dbs)
    IN  IF c.err # NoErr
        THEN Result(None,
                    <<Diag("Error creating database",
                           <<"Could not create database, unexpected error: ">> \o c.err)>>,
                    <<Exchange(c)>>, c.srv, FALSE)
        ELSE LET r == c.value[1] IN
             Result(Some(DatabaseModel(r.accountId, r.clusterId, r.name, r.maxTables,
                                       r.maxColumnsPerTable, r.retentionPeriod,
                                       getPartitionTemplateSdk(r.partitionTemplate))),
                    <<>>, <<Exchange(c)>>, c.srv, FALSE)

DatabaseReadSdk(state, x, dbs) ==
    LET c == GetDatabaseByName(state.name, x, dbs) IN
    IF c.err # NoErr
    THEN Result(Some(state), <<Diag("Database not found", c.err)>>,
                <<Exchange(c)>>, c.srv, FALSE)
    ELSE LET r == c.value[1] IN
         Result(Some(DatabaseModel(r.accountId, r.clusterId, r.name, r.maxTables,
                                   r.maxColumnsPerTable, r.retentionPeriod,
                                   getPartitionTemplateSdk(r.partitionTemplate))),
                <<>>, <<Exchange(c)>>, c.srv, FALSE)

DatabaseUpdateSdk(prior, plan, x, dbs) ==
    LET updateDatabase == [name |-> plan.name,
                           maxTables |-> ToInt(plan.max_tables),
                           maxColumnsPerTable |-> ToInt(plan.max_columns_per_table),
                           retentionPeriod |-> plan.retention_period,
                           partitionTemplate |-> None]
        c == UpdateDatabase(updateDatabase, x, dbs)
    IN  IF c.err # NoErr
        THEN Result(Some(prior),
                    <<Diag("Error updating database",
                           <<"Could not update database, unexpected error: ">> \o c.err)>>,
                    <<Exchange(c)>>, c.srv, FALSE)
        ELSE LET r == c.value[1] IN
             Result(Some(DatabaseModel(r.accountId, r.clusterId, r.name, r.maxTables,
                                       r.maxColumnsPerTable, r.retentionPeriod,
                                       plan.partition_template)),
                    <<>>, <<Exchange(c)>>, c.srv, FALSE)

DatabaseDeleteSdk(state, x, dbs) ==
    LET c == DeleteDatabase(state.name, x, dbs) IN
    IF c.err # NoErr
    THEN Result(Some(state),
                <<Diag("Error deleting database",
                       <<"Could not delete database, unexpected error: ">> \o c.err)>>,
                <<Exchange(c)>>, c.srv, FALSE)
    ELSE Result(None, <<>>, <<Exchange(c)>>, c.srv, FALSE)

(***************************************************************************)
(* DatabaseResource of the generated-client generation.                    *)
(***************************************************************************)
RECURSIVE BuildPartitionTemplates(_)
\* the loop of Create over plan.PartitionTemplate: the parts of the request,
\* or the error of the first bucket value that is not JSON
BuildPartitionTemplates(pts) ==
    IF pts = <<>> THEN [err |-> NoErr, parts |-> <<>>]
    ELSE LET pt == Head(pts)
             rest == BuildPartitionTemplates(Tail(pts))
         IN  IF pt.type \in {"time", "tag"}
             THEN [rest EXCEPT !.parts = <<WireString(pt.type, pt.value)>> \o @]
             ELSE IF pt.type = "bucket"
                  THEN LET u == UnmarshalBucket(pt.value) IN
                       IF u.err # NoErr
                       THEN [err |-> <<"Failed to unmarshal JSON data: ">> \o u.err,
                             parts |-> <<>>]
                       ELSE [rest EXCEPT !.parts = <<WireObject(pt.type, u.obj)>> \o @]
                  ELSE [rest EXCEPT !.parts = <<WireEmpty>> \o @]

StatusDetail(code) == <<"Status: ", ToString(code)>>

\* the model struct made of a database of a response
FromApiDatabase(r, pt) ==
    DatabaseModel(r.accountId, r.clusterId, r.name,
                  FromInt32(ToInt32(r.maxTables)),
                  FromInt32(ToInt32(r.maxColumnsPerTable)),
                  r.retentionPeriod, pt)

DatabaseCreate(plan, x, dbs) ==
    LET built == BuildPartitionTemplates(IF plan.partition_template = None THEN <<>>
                                         ELSE plan.partition_template[1])
        createDatabaseRequest ==
            [name |-> plan.name,
             maxTables |-> FromInt32(ToInt32(plan.max_tables)),
             maxColumnsPerTable |-> FromInt32(ToInt32(plan.max_columns_per_table)),
             retentionPeriod |-> plan.retention_period,
             partitionTemplate |-> Some(built.parts)]
        req == Request("POST", <<DatabaseAPIPath>>, Some(createDatabaseRequest))
        ex == ServerDb(req, x, dbs)
        c == [req |-> req, resp |-> ex.resp]
    IN  IF built.err # NoErr
        THEN Result(None, <<Diag("Error creating database partition template", built.err)>>,
                    <<>>, dbs, FALSE)
        ELSE IF ex.resp.transport
        THEN Result(None,
                    <<Diag("Error creating database",
                           <<"Could not create database, unexpected error: ", "transport error">>)>>,
                    <<c>>, ex.dbs, FALSE)
        ELSE IF ex.resp.status # StatusOK
        THEN Result(None, <<Diag("Error creating database", StatusDetail(ex.resp.status))>>,
                    <<c>>, ex.dbs, FALSE)
        ELSE IF ex.resp.body = None
        THEN Result(None, <<>>, <<c>>, ex.dbs, TRUE)
        ELSE LET r == ex.resp.body[1] IN
             Result(Some(FromApiDatabase(r, getPartitionTemplate(r.partitionTemplate))),
                    <<>>, <<c>>, ex.dbs, FALSE)

\* a lookup that takes the first database of the list whatever its name
getDatabaseByNameFirst(databases, name) ==
    IF databases = <<>> THEN None
    ELSE Some(FromApiDatabase(databases[1],
                              getPartitionTemplate(databases[1].partitionTemplate)))

\* a lookup that takes the last database of the list with that name
getDatabaseByNameLast(databases, name) ==
    LET named == {i \in DOMAIN databases : databases[i].name = name}
        i == CHOOSE k \in named : \A j \in named : j <= k
    IN  IF named = {} THEN None
        ELSE Some(FromApiDatabase(databases[i],
                                  getPartitionTemplate(databases[i].partitionTemplate)))

\* getDatabaseByName of the generated-client generation: the model of the
\* first database of the list with that name, None when there is none
getDatabaseByName(databases, name) ==
    LET i == DbIndex(databases, name) IN
    IF i = 0 THEN None
    ELSE Some(FromApiDatabase(databases[i],
                              getPartitionTemplate(databases[i].partitionTemplate)))

DatabaseRead(state, x, dbs) ==
    LET req == Request("GET", <<DatabaseAPIPath>>, None)
        ex == ServerDb(req, x, dbs)
        c == [req |-> req, resp |-> ex.resp]
    IN  IF ex.resp.transport
        THEN Result(Some(state), <<Diag("Error getting database", <<"transport error">>)>>,
                    <<c>>, ex.dbs, FALSE)
        ELSE IF ex.resp.status # StatusOK
        THEN Result(Some(state), <<Diag("Error getting database", StatusDetail(ex.resp.status))>>,
                    <<c>>, ex.dbs, FALSE)
        ELSE IF ex.resp.body = None
        THEN Result(Some(state), <<>>, <<c>>, ex.dbs, TRUE)
        ELSE LET readDatabase == getDatabaseByName(ex.resp.body[1], state.name) IN
             IF readDatabase = None
             THEN Result(Some(state),
                         <<Diag("Database not found",
                                <<"Database with name ", state.name, " not found">>)>>,
                         <<c>>, ex.dbs, FALSE)
             ELSE Result(readDatabase, <<>>, <<c>>, ex.dbs, FALSE)

DatabaseUpdate(prior, plan, x, dbs) ==
    LET updateDatabaseRequest ==
            [maxTables |-> FromInt32(ToInt32(plan.max_tables)),
             maxColumnsPerTable |-> FromInt32(ToInt32(plan.max_columns_per_table)),
             retentionPeriod |-> plan.retention_period]
        req == Request("PATCH", PathJoin(DatabaseAPIPath, plan.name),
                       Some(updateDatabaseRequest))
        ex == ServerDb(req, x, dbs)
        c == [req |-> req, resp |-> ex.resp]
    IN  IF ex.resp.transport
        THEN Result(Some(prior),
                    <<Diag("Error updating database",
                           <<"Could not update database, unexpected error: ", "transport error">>)>>,
                    <<c>>, ex.dbs, FALSE)
        ELSE IF ex.resp.status # StatusOK
        THEN Result(Some(prior), <<Diag("Error updating database", StatusDetail(ex.resp.status))>>,
                    <<c>>, ex.dbs, FALSE)
        ELSE IF ex.resp.body = None
        THEN Result(Some(prior), <<>>, <<c>>, ex.dbs, TRUE)
        ELSE LET r == ex.resp.body[1] IN
             Result(Some(FromApiDatabase(r, plan.partition_template)),
                    <<>>, <<c>>, ex.dbs, FALSE)

DatabaseDelete(state, x, dbs) ==
    LET req == Request("DELETE", PathJoin(DatabaseAPIPath, state.name), None)
        ex == ServerDb(req, x, dbs)
        c == [req |-> req, resp |-> ex.resp]
    IN  IF ex.resp.transport
        THEN Result(Some(state),
                    <<Diag("Error deleting database",
                           <<"Could not delete database, unexpected error: ", "transport error">>)>>,
                    <<c>>, ex.dbs, FALSE)
        ELSE IF ex.resp.status # StatusNoContent
        THEN Result(Some(state), <<Diag("Error deleting database", StatusDetail(ex.resp.status))>>,
                    <<c>>, ex.dbs, FALSE)
        ELSE Result(None, <<>>, <<c>>, ex.dbs, FALSE)

(***************************************************************************)
(* The plugin framework around the database resource.  A configuration is  *)
(* the validated configuration with the schema defaults applied.  The plan *)
(* replaces the resource (Delete, then Create) when an attribute carrying  *)
(* the RequiresReplace plan modifier changes, and updates it in place for  *)
(* any other change.  The framework starts Read, Update and Delete with    *)
(* the prior state in the response, and removes the resource from the      *)
(* state after a Delete without error diagnostics.                         *)
(***************************************************************************)
DbNames == {"signals", "metrics"}
MaxTablesValues == {I64(0, 500), I64(1, 5)}
MaxColumnsValues == {I64(0, 200)}
RetentionValues == {604800}

TemplatesSdk ==
    {Some(<<>>), Some(<<Part("tag", "line"), Part("time", "%Y")>>)}

Templates ==
    {None, Some(<<Part("tag", "line"), Part("bucket", BucketCanonical)>>),
     Some(<<Part("bucket", BucketReordered)>>),
     Some(<<Part("bucket", NotJson)>>)}

DbConfigs(i) ==
    {DatabaseModel(Unknown, Unknown, n, mt, mc, rp, pt) :
        n \in DbNames, mt \in MaxTablesValues, mc \in MaxColumnsValues,
        rp \in RetentionValues, pt \in IF i = "sdk" THEN TemplatesSdk ELSE Templates}

DbAttributes == {"name", "max_tables", "max_columns_per_table", "retention_period",
                 "partition_template"}

\* the attributes of the database schema with a RequiresReplace plan modifier
RequiresReplaceSdk == {"partition_template"}
RequiresReplaceNameOnly == {"name"}
RequiresReplace == {"name", "partition_template"}

DbRequiresReplace(i) == IF i = "sdk" THEN RequiresReplaceSdk ELSE RequiresReplace

Changed(state, cfg, attrs) == {a \in attrs : state[a] # cfg[a]}

Planned(op, plan, changed, replace) ==
    [op |-> op, plan |-> plan, changed |-> changed, replace |-> replace]

\* the operations the framework plans to take the database from state to cfg
PlannedDb(i, state, cfg) ==
    IF state = None THEN <<Planned("Create", Some(cfg), {}, FALSE)>>
    ELSE LET ch == Changed(state[1], cfg, DbAttributes) IN
         IF ch \cap DbRequiresReplace(i) # {}
         THEN <<Planned("Delete", None, ch, TRUE), Planned("Create", Some(cfg), ch, TRUE)>>
         ELSE IF ch # {} THEN <<Planned("Update", Some(cfg), ch, FALSE)>>
         ELSE <<>>

\* the record of a handler call: what was asked and what it did
Last(op, entry, res) ==
    [op |-> op, plan |-> entry.plan, changed |-> entry.changed,
     replace |-> entry.replace, calls |-> res.calls, diags |-> res.diags,
     panicked |-> res.panicked, data |-> None]

Refresh == Planned("Read", None, {}, FALSE)

Failed(res) == res.diags # <<>> \/ res.panicked

\* the framework after a database handler returned res
DbDone(op, entry, res) ==
    /\ dbState' = res.state
    /\ srvDbs' = res.srv
    /\ last' = Last(op, entry, res)
    /\ pending' = IF Failed(res) \/ pending = <<>> THEN <<>> ELSE Tail(pending)
    /\ UNCHANGED <<conc, http, impl, managed, srvTokens, srvNextId, tokState, prov>>

PlanDatabase ==
    /\ managed = "database" /\ pending = <<>>
    /\ \E cfg \in DbConfigs(impl) :
          /\ PlannedDb(impl, dbState, cfg) # <<>>
          /\ pending' = PlannedDb(impl, dbState, cfg)
    /\ UNCHANGED <<conc, http, impl, managed, srvDbs, srvTokens, srvNextId, dbState, tokState, last, prov>>

PlanDestroyDatabase ==
    /\ managed = "database" /\ pending = <<>>
    /\ dbState # None
    /\ pending' = <<Planned("Delete", None, {}, FALSE)>>
    /\ UNCHANGED <<conc, http, impl, managed, srvDbs, srvTokens, srvNextId, dbState, tokState, last, prov>>

Next1(op) == pending # <<>> /\ Head(pending).op = op

PostOutcomes(name) ==
    Outcomes(DbAllowed(Request("POST", <<DatabaseAPIPath>>, Some([name |-> name])), srvDbs),
             {StatusOK})

ItemOutcomes(method, name) ==
    Outcomes(DbAllowed(Request(method, PathJoin(DatabaseAPIPath, name), None), srvDbs),
             {StatusOK})

ListOutcomes ==
    Outcomes(DbAllowed(Request("GET", <<DatabaseAPIPath>>, None), srvDbs), {StatusOK})

RunDatabaseCreateSdk ==
    /\ impl = "sdk" /\ managed = "database" /\ Next1("Create")
    /\ \E x \in PostOutcomes(Head(pending).plan[1].name) :
          DbDone("Create", Head(pending), DatabaseCreateSdk(Head(pending).plan[1], x, srvDbs))

RunDatabaseReadSdk ==
    /\ impl = "sdk" /\ managed = "database" /\ pending = <<>> /\ dbState # None
    /\ \E x \in ListOutcomes :
          DbDone("Read", Refresh, DatabaseReadSdk(dbState[1], x, srvDbs))

RunDatabaseUpdateSdk ==
    /\ impl = "sdk" /\ managed = "database" /\ Next1("Update")
    /\ \E x \in ItemOutcomes("PATCH", Head(pending).plan[1].name) :
          DbDone("Update", Head(pending),
                 DatabaseUpdateSdk(dbState[1], Head(pending).plan[1], x, srvDbs))

RunDatabaseDeleteSdk ==
    /\ impl = "sdk" /\ managed = "database" /\ Next1("Delete")
    /\ \E x \in ItemOutcomes("DELETE", dbState[1].name) :
          DbDone("Delete", Head(pending), DatabaseDeleteSdk(dbState[1], x, srvDbs))

RunDatabaseCreate ==
    /\ impl = "oapi" /\ managed = "database" /\ Next1("Create")
    /\ \E x \in PostOutcomes(Head(pending).plan[1].name) :
          DbDone("Create", Head(pending), DatabaseCreate(Head(pending).plan[1], x, srvDbs))

RunDatabaseRead ==
    /\ impl = "oapi" /\ managed = "database" /\ pending = <<>> /\ dbState # None
    /\ \E x \in ListOutcomes :
          DbDone("Read", Refresh, DatabaseRead(dbState[1], x, srvDbs))

RunDatabaseUpdate ==
    /\ impl = "oapi" /\ managed = "database" /\ Next1("Update")
    /\ \E x \in ItemOutcomes("PATCH", Head(pending).plan[1].name) :
          DbDone("Update", Head(pending),
                 DatabaseUpdate(dbState[1], Head(pending).plan[1], x, srvDbs))

RunDatabaseDelete ==
    /\ impl = "oapi" /\ managed = "database" /\ Next1("Delete")
    /\ \E x \in ItemOutcomes("DELETE", dbState[1].name) :
          DbDone("Delete", Head(pending), DatabaseDelete(dbState[1], x, srvDbs))

(***************************************************************************)
(* DatabaseDataSource.Read: the state of a data source starts null and is  *)
(* written by the handler alone.  The configuration of a data source gives *)
(* the name; the other attributes are computed.                            *)
(***************************************************************************)
NameIsEmpty(dbs) ==
    Result(None, <<Diag("Name is empty", <<"Must set name">>)>>, <<>>, dbs, FALSE)

\* Read of the data source over the internal client
DatabaseDataSourceReadSdk(config, x, dbs) ==
    LET c == GetDatabaseByName(config.name, x, dbs) IN
    IF config.name = NullString THEN NameIsEmpty(dbs)
    ELSE IF c.err # NoErr
    THEN Result(None, <<Diag("Database not found", c.err)>>, <<Exchange(c)>>, c.srv, FALSE)
    ELSE LET r == c.value[1] IN
         Result(Some(DatabaseModel(r.accountId, r.clusterId, r.name, r.maxTables,
                                   r.maxColumnsPerTable, r.retentionPeriod,
                                   getPartitionTemplateSdk(r.partitionTemplate))),
                <<>>, <<Exchange(c)>>, c.srv, FALSE)

\* Read of the data source over the generated client
DatabaseDataSourceRead(config, x, dbs) ==
    LET req == Request("GET", <<DatabaseAPIPath>>, None)
        ex == ServerDb(req, x, dbs)
        c == [req |-> req, resp |-> ex.resp]
    IN  IF config.name = NullString THEN NameIsEmpty(dbs)
        ELSE IF ex.resp.transport
        THEN Result(None, <<Diag("Error getting database", <<"transport error">>)>>,
                    <<c>>, ex.dbs, FALSE)
        ELSE IF ex.resp.status # StatusOK
        THEN Result(None, <<Diag("Error getting database", StatusDetail(ex.resp.status))>>,
                    <<c>>, ex.dbs, FALSE)
        ELSE IF ex.resp.body = None
        THEN Result(None, <<>>, <<c>>, ex.dbs, TRUE)
        ELSE LET readDatabase == getDatabaseByName(ex.resp.body[1], config.name) IN
             IF readDatabase = None
             THEN Result(None,
                         <<Diag("Database not found",
                                <<"Database with name ", config.name, " not found">>)>>,
                         <<c>>, ex.dbs, FALSE)
             ELSE Result(readDatabase, <<>>, <<c>>, ex.dbs, FALSE)

\* the configurations of the data source: name is a required attribute
DbDataConfigs ==
    {DatabaseModel(NullString, NullString, n, NullString, NullString, NullString, None) : n \in DbNames}

\* the framework after the Read of the data source returned res
DbDataDone(config, res) ==
    /\ srvDbs' = res.srv
    /\ last' = [Last("DataRead", Planned("DataRead", Some(config), {}, FALSE), res)
                   EXCEPT !.data = res.state]
    /\ UNCHANGED <<conc, http, impl, managed, srvTokens, srvNextId, dbState, tokState, pending, prov>>

RunDatabaseDataSourceReadSdk ==
    /\ impl = "sdk" /\ managed = "database" /\ pending = <<>>
    /\ \E config \in DbDataConfigs, x \in ListOutcomes :
          DbDataDone(config, DatabaseDataSourceReadSdk(config, x, srvDbs))

RunDatabaseDataSourceRead ==
    /\ impl = "oapi" /\ managed = "database" /\ pending = <<>>
    /\ \E config \in DbDataConfigs, x \in ListOutcomes :
          DbDataDone(config, DatabaseDataSourceRead(config, x, srvDbs))

NoLast ==
    [op |-> "", plan |-> None, changed |-> {}, replace |-> FALSE, calls |-> <<>>,
     diags |-> <<>>, panicked |-> FALSE, data |-> None]

\* the resource instances that run concurrently: one database each
InstanceName == <<"signals", "metrics">>
Instances == DOMAIN InstanceName

NoResult == [state |-> None, diags |-> <<>>, panicked |-> FALSE]

\* a resource instance at rest with nothing in state; alone is the same
\* instance run by itself against a server of its own with the same inputs
Resting ==
    [pc |-> "idle", op |-> "", plan |-> None, url |-> "", authorization |-> "",
     res |-> NoResult, state |-> None,
     alone |-> [srv |-> <<>>, state |-> None, res |-> NoResult, allowed |-> TRUE]]

\* the provider not configured, no instance running
NoConc == [client |-> None, procs |-> [p \in Instances |-> Resting]]

\* no client made and no call of it begun
NoCall ==
    [client |-> None, op |-> "", method |-> "", url |-> "", authorization |-> "",
     headers |-> {}, sent |-> 0, seen |-> <<>>, phase |-> "idle", err |-> NoErr]

(***************************************************************************)
(* Tokens on the server.  The server assigns the id and returns the access *)
(* token in the answer to the POST only.                                   *)
(***************************************************************************)
TokenIds == [n \in 1..MaxTokens |-> "uuid-" \o ToString(n)]

\* a parser that takes every text for a UUID
IsUUIDAny(id) == TRUE

\* uuid.Parse succeeds
IsUUID(id) == \E n \in DOMAIN TokenIds : TokenIds[n] = id

TokKeys(toks) == [i \in 1..Len(toks) |-> [key |-> toks[i].id]]

TokIndex(toks, id) == IndexOf(TokKeys(toks), id, 1)

TokAllowed(req, toks) ==
    IF Len(req.path) = 2
    THEN IF TokIndex(toks, req.path[2]) = 0 THEN {StatusNotFound} ELSE Statuses
    ELSE IF req.method \in {"GET", "POST"} THEN Statuses ELSE {StatusNotFound}

StoredToken(b, n) ==
    [accessToken |-> "secret-" \o ToString(n), accountId |-> AccountId,
     createdAt |-> "created-" \o ToString(n), clusterId |-> ClusterId,
     description |-> b.description, id |-> TokenIds[n], permissions |-> b.permissions]

PatchedToken(t, b) ==
    [t EXCEPT !.description = b.description, !.permissions = b.permissions]

Redacted(t) == [t EXCEPT !.accessToken = ""]

\* the server's answer to a token request, its tokens and its next id afterwards
ServerTok(req, x, toks, next) ==
    LET i == IF Len(req.path) = 2 THEN TokIndex(toks, req.path[2]) ELSE 0 IN
    IF ~Applied(req, x) THEN [resp |-> Response(x, None), toks |-> toks, next |-> next]
    ELSE IF req.method = "POST"
         THEN LET t == StoredToken(req.body[1], next) IN
              [resp |-> Response(x, Some(t)), toks |-> Append(toks, Redacted(t)),
               next |-> next + 1]
    ELSE IF req.method = "PATCH"
         THEN LET t == PatchedToken(toks[i], req.body[1]) IN
              [resp |-> Response(x, Some(t)), toks |-> [toks EXCEPT ![i] = t], next |-> next]
    ELSE IF req.method = "DELETE"
         THEN [resp |-> Response(x, None), toks |-> RemoveAt(toks, i), next |-> next]
    ELSE IF i # 0
         THEN [resp |-> Response(x, Some(toks[i])), toks |-> toks, next |-> next]
    ELSE [resp |-> Response(x, Some(toks)), toks |-> toks, next |-> next]

(***************************************************************************)
(* internal/sdk/influxdb3: the token API of the internal client.           *)
(***************************************************************************)
CallTok(req, ex, value, err) ==
    [req |-> req, resp |-> ex.resp, srv |-> [toks |-> ex.toks, next |-> ex.next],
     value |-> value, err |-> err]

CreateToken(tokenParams, x, toks, next) ==
    LET req == Request("POST", <<TokenAPIPath>>, Some(tokenParams))
        ex == ServerTok(req, x, toks, next)
        r == makeAPICall(ex.resp)
    IN  IF r.err # NoErr THEN CallTok(req, ex, None, r.err)
        ELSE IF Unmarshal(r.body) # NoErr THEN CallTok(req, ex, None, Unmarshal(r.body))
        ELSE CallTok(req, ex, r.body, NoErr)

\* DeleteToken passing over a token that is already gone
DeleteTokenIdempotent(tokenID, x, toks, next) ==
    LET req == Request("DELETE", PathJoin(TokenAPIPath, tokenID), None)
        ex == ServerTok(req, x, toks, next)
        r == makeAPICall(ex.resp)
    IN  IF r.err # NoErr
        THEN IF r.err \in {UnexpectedStatus(StatusNoContent), UnexpectedStatus(StatusNotFound)}
             THEN CallTok(req, ex, None, NoErr)
             ELSE CallTok(req, ex, None, <<"error deleting token: ">> \o r.err)
        ELSE CallTok(req, ex, None, NoErr)

DeleteToken(tokenID, x, toks, next) ==
    LET req == Request("DELETE", PathJoin(TokenAPIPath, tokenID), None)
        ex == ServerTok(req, x, toks, next)
        r == makeAPICall(ex.resp)
    IN  IF r.err # NoErr
        THEN IF r.err = UnexpectedStatus(StatusNoContent)
             THEN CallTok(req, ex, None, NoErr)
             ELSE CallTok(req, ex, None, <<"error deleting token: ">> \o r.err)
        ELSE CallTok(req, ex, None, NoErr)

GetTokens(x, toks, next) ==
    LET req == Request("GET", <<TokenAPIPath>>, None)
        ex == ServerTok(req, x, toks, next)
        r == makeAPICall(ex.resp)
    IN  IF r.err # NoErr THEN CallTok(req, ex, None, r.err)
        ELSE IF Unmarshal(r.body) # NoErr THEN CallTok(req, ex, None, Unmarshal(r.body))
        ELSE CallTok(req, ex, r.body, NoErr)

\* GetTokenByID without the rewriting of the 404 error
GetTokenByIDGeneric(tokenID, x, toks, next) ==
    LET req == Request("GET", PathJoin(TokenAPIPath, tokenID), None)
        ex == ServerTok(req, x, toks, next)
        r == makeAPICall(ex.resp)
    IN  IF r.err # NoErr THEN CallTok(req, ex, None, r.err)
        ELSE IF Unmarshal(r.body) # NoErr THEN CallTok(req, ex, None, Unmarshal(r.body))
        ELSE CallTok(req, ex, r.body, NoErr)

GetTokenByID(tokenID, x, toks, next) ==
    LET req == Request("GET", PathJoin(TokenAPIPath, tokenID), None)
        ex == ServerTok(req, x, toks, next)
        r == makeAPICall(ex.resp)
    IN  IF r.err # NoErr
        THEN IF r.err = UnexpectedStatus(StatusNotFound)
             THEN CallTok(req, ex, None, <<"error getting token: ", tokenID, " not found">>)
             ELSE CallTok(req, ex, None, r.err)
        ELSE IF Unmarshal(r.body) # NoErr THEN CallTok(req, ex, None, Unmarshal(r.body))
        ELSE CallTok(req, ex, r.body, NoErr)

UpdateToken(tokenID, tokenParams, x, toks, next) ==
    LET req == Request("PATCH", PathJoin(TokenAPIPath, tokenID), Some(tokenParams))
        ex == ServerTok(req, x, toks, next)
        r == makeAPICall(ex.resp)
    IN  IF r.err # NoErr THEN CallTok(req, ex, None, r.err)
        ELSE IF Unmarshal(r.body) # NoErr THEN CallTok(req, ex, None, Unmarshal(r.body))
        ELSE CallTok(req, ex, r.body, NoErr)

(***************************************************************************)
(* Terraform state and plan of a token: the struct TokenModel.             *)
(***************************************************************************)

TokenModel(at, acc, created, clu, description, id, permissions) ==
    [access_token |-> at, account_id |-> acc, created_at |-> created, cluster_id |-> clu,
     description |-> description, id |-> id, permissions |-> permissions]

TokenPermissionModel(action, resource) == [action |-> action, resource |-> resource]

(***************************************************************************)
(* TokenResource of the internal-SDK generation (token_resource.go).       *)
(***************************************************************************)
SdkPermission(p) == [action |-> p.action, resource |-> p.resource]

\* the permissions of a request: the slice stays nil when the plan has none
PermissionsRequestSdk(plan) ==
    IF plan.permissions = None \/ plan.permissions = Some(<<>>) THEN None
    ELSE Some(MapSeq(SdkPermission, plan.permissions[1]))

getPermissionsElemSdk(p) == TokenPermissionModel(p.action, p.resource)

\* a mapping that drops the permissions of the response
getPermissionsSdkEmpty(permissions) == Some(<<>>)

getPermissionsSdk(permissions) ==
    IF permissions = None THEN Some(<<>>)
    ELSE Some(MapSeq(getPermissionsElemSdk, permissions[1]))

TokenCreateSdk(plan, x, toks, next) ==
    LET createToken == [description |-> plan.description,
                        permissions |-> PermissionsRequestSdk(plan)]
        c == CreateToken(createToken, x, toks, next)
    IN  IF c.err # NoErr
        THEN Result(None,
                    <<Diag("Error creating token",
                           <<"Could not create token, unexpected error: ">> \o c.err)>>,
                    <<Exchange(c)>>, c.srv, FALSE)
        ELSE LET r == c.value[1] IN
             Result(Some(TokenModel(r.accessToken, r.accountId, r.createdAt, r.clusterId,
                                    r.description, r.id, getPermissionsSdk(r.permissions))),
                    <<>>, <<Exchange(c)>>, c.srv, FALSE)

\* a Read that drops the token from the state when GetTokenByID fails
TokenReadSdkRemoving(state, x, toks, next) ==
    LET c == GetTokenByID(state.id, x, toks, next) IN
    IF c.err # NoErr
    THEN Result(None, <<Diag("Error getting Tokens", c.err)>>,
                <<Exchange(c)>>, c.srv, FALSE)
    ELSE LET r == c.value[1] IN
         Result(Some(TokenModel(state.access_token, r.accountId, r.createdAt, r.clusterId,
                                r.description, r.id, getPermissionsSdk(r.permissions))),
                <<>>, <<Exchange(c)>>, c.srv, FALSE)

TokenReadSdk(state, x, toks, next) ==
    LET c == GetTokenByID(state.id, x, toks, next) IN
    IF c.err # NoErr
    THEN Result(Some(state), <<Diag("Error getting Tokens", c.err)>>,
                <<Exchange(c)>>, c.srv, FALSE)
    ELSE LET r == c.value[1] IN
         Result(Some(TokenModel(state.access_token, r.accountId, r.createdAt, r.clusterId,
                                r.description, r.id, getPermissionsSdk(r.permissions))),
                <<>>, <<Exchange(c)>>, c.srv, FALSE)

TokenUpdateSdk(prior, plan, x, toks, next) ==
    LET updateToken == [description |-> plan.description,
                        permissions |-> PermissionsRequestSdk(plan)]
        c == UpdateToken(plan.id, updateToken, x, toks, next)
    IN  IF c.err # NoErr
        THEN Result(Some(prior),
                    <<Diag("Error updating token",
                           <<"Could not update token, unexpected error: ">> \o c.err)>>,
                    <<Exchange(c)>>, c.srv, FALSE)
        ELSE LET r == c.value[1] IN
             Result(Some(TokenModel(plan.access_token, r.accountId, r.createdAt, r.clusterId,
                                    r.description, r.id, getPermissionsSdk(r.permissions))),
                    <<>>, <<Exchange(c)>>, c.srv, FALSE)

TokenDeleteSdk(state, x, toks, next) ==
    LET c == DeleteToken(state.id, x, toks, next) IN
    IF c.err # NoErr
    THEN Result(Some(state),
                <<Diag("Error deleting token",
                       <<"Could not delete token, unexpected error: ">> \o c.err)>>,
                <<Exchange(c)>>, c.srv, FALSE)
    ELSE Result(None, <<>>, <<Exchange(c)>>, c.srv, FALSE)

(***************************************************************************)
(* TokenResource of the generated-client generation.  A permission of a    *)
(* request or response is [action, resource] with an optional action and a *)
(* resource union holding the JSON of a string.                            *)
(***************************************************************************)
\* DatabaseTokenPermissionResource.FromClusterDatabaseName
FromClusterDatabaseName(s) == [json |-> "string", str |-> s]

\* AsClusterDatabaseName failing to decode
AsClusterDatabaseNameFailing(u) == ""

\* DatabaseTokenPermissionResource.AsClusterDatabaseName, its error dropped
AsClusterDatabaseName(u) == IF u.json = "string" THEN u.str ELSE ""

ApiPermission(p) ==
    [action |-> Some(p.action), resource |-> FromClusterDatabaseName(p.resource)]

PermissionsRequest(plan) ==
    IF plan.permissions = None \/ plan.permissions = Some(<<>>) THEN None
    ELSE Some(MapSeq(ApiPermission, plan.permissions[1]))

getPermissionsElem(p) ==
    TokenPermissionModel(IF p.action = None THEN NullString ELSE p.action[1],
                         AsClusterDatabaseName(p.resource))

getPermissions(permissions) ==
    IF permissions = None THEN Some(<<>>)
    ELSE Some(MapSeq(getPermissionsElem, permissions[1]))

\* the statuses for which the response types of the generated client have a
\* field JSON<status> holding a typed error
TypedErrorStatuses == {400, 401, 403, 404, 409, 500}

\* formatErrorResponse: its message and its error
formatErrorResponse(resp, statusCode) ==
    IF statusCode \notin TypedErrorStatuses
    THEN [msg |-> <<>>, err |-> <<"field JSON", ToString(statusCode), " not found">>]
    ELSE IF resp.error = None
         THEN [msg |-> <<"HTTP Status Code: ", ToString(statusCode)>>, err |-> NoErr]
         ELSE [msg |-> <<"HTTP Status Code: ", ToString(statusCode),
                         "Error Code: ", ToString(resp.error[1].code),
                         "Error Message: ", resp.error[1].message>>,
               err |-> NoErr]

\* the diagnostic of a response with the wrong status
StatusDiag(summary, resp) ==
    LET f == formatErrorResponse(resp, resp.status) IN
    IF f.err # NoErr THEN Diag("Error formatting error response", f.err)
    ELSE Diag(summary, f.msg)

FromApiToken(at, r) ==
    TokenModel(at, r.accountId, r.createdAt, r.clusterId, r.description, r.id,
               getPermissions(r.permissions))

TokSrv(ex) == [toks |-> ex.toks, next |-> ex.next]

TokenCreate(plan, x, toks, next) ==
    LET createTokenRequest == [description |-> plan.description,
                               permissions |-> PermissionsRequest(plan)]
        req == Request("POST", <<TokenAPIPath>>, Some(createTokenRequest))
        ex == ServerTok(req, x, toks, next)
        c == [req |-> req, resp |-> ex.resp]
    IN  IF ex.resp.transport
        THEN Result(None,
                    <<Diag("Error creating token",
                           <<"Could not create token, unexpected error: ", "transport error">>)>>,
                    <<c>>, TokSrv(ex), FALSE)
        ELSE IF ex.resp.status # StatusOK
        THEN Result(None, <<StatusDiag("Error creating token", ex.resp)>>,
                    <<c>>, TokSrv(ex), FALSE)
        ELSE IF ex.resp.body = None
        THEN Result(None, <<>>, <<c>>, TokSrv(ex), TRUE)
        ELSE LET r == ex.resp.body[1] IN
             Result(Some(FromApiToken(r.accessToken, r)), <<>>, <<c>>, TokSrv(ex), FALSE)

UuidDiag == Diag("Validation error. Ensure the Id is in UUID format.", <<"invalid UUID">>)

TokenRead(state, x, toks, next) ==
    LET req == Request("GET", PathJoin(TokenAPIPath, state.id), None)
        ex == ServerTok(req, x, toks, next)
        c == [req |-> req, resp |-> ex.resp]
    IN  IF ~IsUUID(state.id)
        THEN Result(Some(state), <<UuidDiag>>, <<>>, [toks |-> toks, next |-> next], FALSE)
        ELSE IF ex.resp.transport
        THEN Result(Some(state), <<Diag("Error getting token", <<"transport error">>)>>,
                    <<c>>, TokSrv(ex), FALSE)
        ELSE IF ex.resp.status # StatusOK
        THEN Result(Some(state), <<StatusDiag("Error getting token", ex.resp)>>,
                    <<c>>, TokSrv(ex), FALSE)
        ELSE IF ex.resp.body = None
        THEN Result(Some(state), <<>>, <<c>>, TokSrv(ex), TRUE)
        ELSE Result(Some(FromApiToken(state.access_token, ex.resp.body[1])),
                    <<>>, <<c>>, TokSrv(ex), FALSE)

TokenUpdate(prior, plan, x, toks, next) ==
    LET updateTokenRequest == [description |-> plan.description,
                               permissions |-> PermissionsRequest(plan)]
        req == Request("PATCH", PathJoin(TokenAPIPath, plan.id), Some(updateTokenRequest))
        ex == ServerTok(req, x, toks, next)
        c == [req |-> req, resp |-> ex.resp]
    IN  IF ~IsUUID(plan.id)
        THEN Result(Some(prior), <<UuidDiag>>, <<>>, [toks |-> toks, next |-> next], FALSE)
        ELSE IF ex.resp.transport
        THEN Result(Some(prior),
                    <<Diag("Error updating token",
                           <<"Could not update token, unexpected error: ", "transport error">>)>>,
                    <<c>>, TokSrv(ex), FALSE)
        ELSE IF ex.resp.status # StatusOK
        THEN Result(Some(prior), <<StatusDiag("Error updating token", ex.resp)>>,
                    <<c>>, TokSrv(ex), FALSE)
        ELSE IF ex.resp.body = None
        THEN Result(Some(prior), <<>>, <<c>>, TokSrv(ex), TRUE)
        ELSE Result(Some(FromApiToken(plan.access_token, ex.resp.body[1])),
                    <<>>, <<c>>, TokSrv(ex), FALSE)

TokenDelete(state, x, toks, next) ==
    LET req == Request("DELETE", PathJoin(TokenAPIPath, state.id), None)
        ex == ServerTok(req, x, toks, next)
        c == [req |-> req, resp |-> ex.resp]
    IN  IF ~IsUUID(state.id)
        THEN Result(Some(state), <<UuidDiag>>, <<>>, [toks |-> toks, next |-> next], FALSE)
        ELSE IF ex.resp.transport
        THEN Result(Some(state),
                    <<Diag("Error deleting token",
                           <<"Could not delete token, unexpected error: ", "transport error">>)>>,
                    <<c>>, TokSrv(ex), FALSE)
        ELSE IF ex.resp.status # StatusNoContent
        THEN Result(Some(state), <<StatusDiag("Error deleting token", ex.resp)>>,
                    <<c>>, TokSrv(ex), FALSE)
        ELSE Result(None, <<>>, <<c>>, TokSrv(ex), FALSE)

(***************************************************************************)
(* The plugin framework around the token resource.  No attribute of the    *)
(* token schema requires replacement; access_token and id carry the plan   *)
(* modifier UseStateForUnknown, so the plan of an Update holds the values  *)
(* of the prior state for them.                                            *)
(***************************************************************************)
Descriptions == {"d1", "d2"}

PermissionLists ==
    {<<>>, <<TokenPermissionModel("read", "signals")>>,
     <<TokenPermissionModel("write", "*"), TokenPermissionModel("read", "signals")>>}

TokConfigs ==
    {TokenModel(Unknown, Unknown, Unknown, Unknown, d, Unknown, Some(ps)) :
        d \in Descriptions, ps \in PermissionLists}

TokAttributes == {"description", "permissions"}

\* UseStateForUnknown on id alone
UseStateForUnknownIdOnly(state, cfg) == [cfg EXCEPT !.id = state.id]

\* the plan of an Update: UseStateForUnknown on access_token and id
UseStateForUnknown(state, cfg) ==
    [cfg EXCEPT !.access_token = state.access_token, !.id = state.id]

\* the operations the framework plans to take the token from state to cfg
PlannedTok(state, cfg) ==
    IF state = None THEN <<Planned("Create", Some(cfg), {}, FALSE)>>
    ELSE LET ch == Changed(state[1], cfg, TokAttributes) IN
         IF ch # {}
         THEN <<Planned("Update", Some(UseStateForUnknown(state[1], cfg)), ch, FALSE)>>
         ELSE <<>>

\* the framework after a token handler returned res
TokDone(op, entry, res) ==
    /\ tokState' = res.state
    /\ srvTokens' = res.srv.toks
    /\ srvNextId' = res.srv.next
    /\ last' = Last(op, entry, res)
    /\ pending' = IF Failed(res) \/ pending = <<>> THEN <<>> ELSE Tail(pending)
    /\ UNCHANGED <<conc, http, impl, managed, srvDbs, dbState, prov>>

PlanToken ==
    /\ managed = "token" /\ pending = <<>>
    /\ \E cfg \in TokConfigs :
          /\ PlannedTok(tokState, cfg) # <<>>
          /\ pending' = PlannedTok(tokState, cfg)
    /\ UNCHANGED <<conc, http, impl, managed, srvDbs, srvTokens, srvNextId, dbState, tokState, last, prov>>

PlanDestroyToken ==
    /\ managed = "token" /\ pending = <<>>
    /\ tokState # None
    /\ pending' = <<Planned("Delete", None, {}, FALSE)>>
    /\ UNCHANGED <<conc, http, impl, managed, srvDbs, srvTokens, srvNextId, dbState, tokState, last, prov>>

\* every status of a token exchange may come with a body that fails to decode
TokOutcomes(method, path) ==
    Outcomes(TokAllowed(Request(method, path, None), srvTokens), Statuses)

RunTokenCreateSdk ==
    /\ impl = "sdk" /\ managed = "token" /\ Next1("Create")
    /\ srvNextId <= MaxTokens
    /\ \E x \in TokOutcomes("POST", <<TokenAPIPath>>) :
          TokDone("Create", Head(pending),
                  TokenCreateSdk(Head(pending).plan[1], x, srvTokens, srvNextId))

RunTokenReadSdk ==
    /\ impl = "sdk" /\ managed = "token" /\ pending = <<>> /\ tokState # None
    /\ \E x \in TokOutcomes("GET", PathJoin(TokenAPIPath, tokState[1].id)) :
          TokDone("Read", Refresh, TokenReadSdk(tokState[1], x, srvTokens, srvNextId))

RunTokenUpdateSdk ==
    /\ impl = "sdk" /\ managed = "token" /\ Next1("Update")
    /\ \E x \in TokOutcomes("PATCH", PathJoin(TokenAPIPath, Head(pending).plan[1].id)) :
          TokDone("Update", Head(pending),
                  TokenUpdateSdk(tokState[1], Head(pending).plan[1], x, srvTokens, srvNextId))

RunTokenDeleteSdk ==
    /\ impl = "sdk" /\ managed = "token" /\ Next1("Delete")
    /\ \E x \in TokOutcomes("DELETE", PathJoin(TokenAPIPath, tokState[1].id)) :
          TokDone("Delete", Head(pending),
                  TokenDeleteSdk(tokState[1], x, srvTokens, srvNextId))

\* a direct call of the SDK function DeleteToken with any token id
RunDeleteToken ==
    /\ impl = "sdk" /\ managed = "token" /\ pending = <<>>
    /\ \E n \in DOMAIN TokenIds :
       \E x \in TokOutcomes("DELETE", PathJoin(TokenAPIPath, TokenIds[n])) :
          LET c == DeleteToken(TokenIds[n], x, srvTokens, srvNextId) IN
          TokDone("DeleteToken", Planned("DeleteToken", None, {}, FALSE),
                  Result(tokState, <<>>, <<Exchange(c)>>, c.srv, FALSE))

RunTokenCreate ==
    /\ impl = "oapi" /\ managed = "token" /\ Next1("Create")
    /\ srvNextId <= MaxTokens
    /\ \E x \in TokOutcomes("POST", <<TokenAPIPath>>) :
          TokDone("Create", Head(pending),
                  TokenCreate(Head(pending).plan[1], x, srvTokens, srvNextId))

RunTokenRead ==
    /\ impl = "oapi" /\ managed = "token" /\ pending = <<>> /\ tokState # None
    /\ \E x \in TokOutcomes("GET", PathJoin(TokenAPIPath, tokState[1].id)) :
          TokDone("Read", Refresh, TokenRead(tokState[1], x, srvTokens, srvNextId))

RunTokenUpdate ==
    /\ impl = "oapi" /\ managed = "token" /\ Next1("Update")
    /\ \E x \in TokOutcomes("PATCH", PathJoin(TokenAPIPath, Head(pending).plan[1].id)) :
          TokDone("Update", Head(pending),
                  TokenUpdate(tokState[1], Head(pending).plan[1], x, srvTokens, srvNextId))

RunTokenDelete ==
    /\ impl = "oapi" /\ managed = "token" /\ Next1("Delete")
    /\ \E x \in TokOutcomes("DELETE", PathJoin(TokenAPIPath, tokState[1].id)) :
          TokDone("Delete", Head(pending),
                  TokenDelete(tokState[1], x, srvTokens, srvNextId))

(***************************************************************************)
(* The lifecycle of one managed resource instance, a database or a token,  *)
(* under one generation of the provider.                                   *)
(***************************************************************************)
Managed == {"database", "token"}

Init ==
    /\ impl \in Impls
    /\ managed \in Managed
    /\ srvDbs = <<>>
    /\ srvTokens = <<>>
    /\ srvNextId = 1
    /\ dbState = None
    /\ tokState = None
    /\ pending = <<>>
    /\ last = NoLast
    /\ prov = None
    /\ http = NoCall
    /\ conc = NoConc

Next ==
    \/ PlanDatabase
    \/ PlanDestroyDatabase
    \/ RunDatabaseCreateSdk
    \/ RunDatabaseReadSdk
    \/ RunDatabaseUpdateSdk
    \/ RunDatabaseDeleteSdk
    \/ RunDatabaseCreate
    \/ RunDatabaseRead
    \/ RunDatabaseUpdate
    \/ RunDatabaseDelete
    \/ RunDatabaseDataSourceReadSdk
    \/ RunDatabaseDataSourceRead
    \/ PlanToken
    \/ PlanDestroyToken
    \/ RunTokenCreateSdk
    \/ RunTokenReadSdk
    \/ RunTokenUpdateSdk
    \/ RunTokenDeleteSdk
    \/ RunDeleteToken
    \/ RunTokenCreate
    \/ RunTokenRead
    \/ RunTokenUpdate
    \/ RunTokenDelete

Spec == Init /\ [][Next]_vars

(***************************************************************************)
(* The specifications of one resource type alone.                          *)
(***************************************************************************)
InitDatabase == Init /\ managed = "database"

NextDatabase ==
    \/ PlanDatabase
    \/ PlanDestroyDatabase
    \/ RunDatabaseCreateSdk
    \/ RunDatabaseReadSdk
    \/ RunDatabaseUpdateSdk
    \/ RunDatabaseDeleteSdk
    \/ RunDatabaseCreate
    \/ RunDatabaseRead
    \/ RunDatabaseUpdate
    \/ RunDatabaseDelete
    \/ RunDatabaseDataSourceReadSdk
    \/ RunDatabaseDataSourceRead

SpecDatabase == InitDatabase /\ [][NextDatabase]_vars

InitToken == Init /\ managed = "token"

NextToken ==
    \/ PlanToken
    \/ PlanDestroyToken
    \/ RunTokenCreateSdk
    \/ RunTokenReadSdk
    \/ RunTokenUpdateSdk
    \/ RunTokenDeleteSdk
    \/ RunDeleteToken
    \/ RunTokenCreate
    \/ RunTokenRead
    \/ RunTokenUpdate
    \/ RunTokenDelete

SpecToken == InitToken /\ [][NextToken]_vars

(***************************************************************************)
(* InfluxDBProvider.Configure.  A configuration value is a string, or one  *)
(* of the two values NullString and Unknown; an environment variable that  *)
(* is not set reads as "".  The older Configure (with the url setting)     *)
(* builds the internal client, the later one the generated client on a     *)
(* fixed URL.                                                              *)
(***************************************************************************)
INFLUXDB3_HOST == "https://console.influxdata.com"
INFLUXDB3_API_ENDPOINT == "/api/v0"

IsNull(v) == v = NullString
IsUnknown(v) == v = Unknown

\* types.String.ValueString: "" for null and unknown
ValueString(v) == IF IsNull(v) \/ IsUnknown(v) THEN "" ELSE v

\* the strings uuid.Parse accepts beside the token ids, with the canonical
\* text of the UUID each denotes
UuidForms ==
    [text: {"acc-cfg-uuid"}, uuid: {"acc-cfg-uuid"}] \cup
    [text: {"{acc-cfg-uuid}"}, uuid: {"acc-cfg-uuid"}] \cup
    [text: {"acc-env-uuid"}, uuid: {"acc-env-uuid"}] \cup
    [text: {"clu-cfg-uuid"}, uuid: {"clu-cfg-uuid"}] \cup
    [text: {"clu-env-uuid"}, uuid: {"clu-env-uuid"}]

\* uuid.Parse(s) followed by String(): the canonical text, None on an error
UuidParse(s) ==
    IF \E f \in UuidForms : f.text = s
    THEN Some((CHOOSE f \in UuidForms : f.text = s).uuid)
    ELSE None

BadUrl == ":bad"

\* the environment variable taking precedence over the configuration value
EnvOrConfig(configValue, envValue) ==
    IF envValue # "" THEN envValue ELSE ValueString(configValue)

\* the value a setting takes: the environment variable, overridden by the
\* configuration value when that is not null
ConfigOrEnv(configValue, envValue) ==
    IF ~IsNull(configValue) THEN ValueString(configValue) ELSE envValue

Setting(attr, summary) == [attr |-> attr, summary |-> summary]

RECURSIVE DiagsWhere(_, _, _)
\* the diagnostics, in order, of the settings of checks whose value in vals
\* satisfies Test
DiagsWhere(Test(_), checks, vals) ==
    IF checks = <<>> THEN <<>>
    ELSE (IF Test(vals[Head(checks).attr])
          THEN <<Diag(Head(checks).summary, <<Head(checks).attr>>)>> ELSE <<>>)
         \o DiagsWhere(Test, Tail(checks), vals)

\* a check of the effective values that finds none missing
IsEmptyNever(v) == FALSE

IsEmpty(v) == v = ""

Configured(diags, client) == [diags |-> diags, client |-> client]

(***************************************************************************)
(* Strings of the standard library, as far as New and makeAPICall use      *)
(* them.  A string is its sequence of characters.                          *)
(***************************************************************************)
\* strings.HasSuffix
HasSuffix(s, suffix) ==
    /\ Len(s) >= Len(suffix)
    /\ SubSeq(s, Len(s) - Len(suffix) + 1, Len(s)) = suffix

\* strings.HasPrefix
HasPrefix(s, prefix) == Len(s) >= Len(prefix) /\ SubSeq(s, 1, Len(prefix)) = prefix

\* strings.Index from position i on: the first position of sub in s, 0 if none
StrIndex(s, sub, i) ==
    LET hits == {k \in i..(Len(s) - Len(sub) + 1) : SubSeq(s, k, k + Len(sub) - 1) = sub}
    IN  IF hits = {} THEN 0 ELSE CHOOSE k \in hits : \A h \in hits : k <= h

\* the pieces of s between its slashes, in order, empty pieces included
Segments(s) ==
    LET slashes == {k \in 1..Len(s) : SubSeq(s, k, k) = "/"}
        n == Cardinality(slashes)
        Slash(m) == IF m = 0 THEN 0
                    ELSE IF m = n + 1 THEN Len(s) + 1
                    ELSE CHOOSE k \in slashes : Cardinality({h \in slashes : h <= k}) = m
    IN  [m \in 1..(n + 1) |-> SubSeq(s, Slash(m - 1) + 1, Slash(m) - 1)]

RECURSIVE Resolve(_, _, _)
\* path.Clean, its walk over the elements: "" and "." are dropped, ".."
\* removes the element before it (and is dropped at the root)
Resolve(segs, out, rooted) ==
    IF segs = <<>> THEN out
    ELSE LET e == Head(segs) IN
         IF e = "" \/ e = "." THEN Resolve(Tail(segs), out, rooted)
         ELSE IF e = ".."
         THEN IF out # <<>> /\ out[Len(out)] # ".."
              THEN Resolve(Tail(segs), SubSeq(out, 1, Len(out) - 1), rooted)
              ELSE IF rooted THEN Resolve(Tail(segs), out, rooted)
              ELSE Resolve(Tail(segs), Append(out, e), rooted)
         ELSE Resolve(Tail(segs), Append(out, e), rooted)

RECURSIVE JoinWith(_, _)
\* strings.Join
JoinWith(elems, sep) ==
    IF elems = <<>> THEN ""
    ELSE IF Len(elems) = 1 THEN elems[1]
    ELSE elems[1] \o sep \o JoinWith(Tail(elems), sep)

\* path.Clean
Clean(p) ==
    LET rooted == HasPrefix(p, "/")
        out == JoinWith(Resolve(Segments(p), <<>>, rooted), "/")
    IN  IF rooted THEN "/" \o out
        ELSE IF out = "" THEN "." ELSE out

\* path.Join of two elements: empty elements are ignored, the result is Clean
Join(a, b) ==
    IF a = "" /\ b = "" THEN ""
    ELSE IF a = "" THEN Clean(b)
    ELSE IF b = "" THEN Clean(a)
    ELSE Clean(a \o "/" \o b)

\* url.Parse of an address without query and fragment: scheme://host/path;
\* an address that starts with a colon has no scheme before it
UrlParse(rawURL) ==
    LET i == StrIndex(rawURL, "://", 1)
        after == SubSeq(rawURL, i + 3, Len(rawURL))
        j == StrIndex(after, "/", 1)
    IN  IF HasPrefix(rawURL, ":")
        THEN [err |-> <<"parse ", rawURL, ": missing protocol scheme">>,
              Scheme |-> "", Host |-> "", Path |-> ""]
        ELSE IF i = 0
        THEN [err |-> NoErr, Scheme |-> "", Host |-> "", Path |-> rawURL]
        ELSE [err |-> NoErr, Scheme |-> SubSeq(rawURL, 1, i - 1),
              Host |-> IF j = 0 THEN after ELSE SubSeq(after, 1, j - 1),
              Path |-> IF j = 0 THEN "" ELSE SubSeq(after, j, Len(after))]

\* (*url.URL).String for a path of characters that need no escaping
UrlString(u) ==
    (IF u.Scheme # "" THEN u.Scheme \o ":" ELSE "")
        \o (IF u.Scheme # "" \/ u.Host # "" THEN "//" \o u.Host ELSE "")
        \o u.Path

\* influxdb3.New of the internal client
New(config) ==
    LET hostAddress == IF ~HasSuffix(config.Host, "/") THEN config.Host \o "/"
                       ELSE config.Host
        parsed == UrlParse(hostAddress)
        apiURL == [parsed EXCEPT !.Path =
                      Join(parsed.Path, "/api/v0/accounts/" \o config.AccountID
                                           \o "/clusters/" \o config.ClusterID) \o "/"]
    IN  IF parsed.err # NoErr
        THEN [client |-> None, err |-> <<"parsing host URL: ">> \o parsed.err]
        ELSE [client |-> Some([accountID |-> config.AccountID,
                               clusterID |-> config.ClusterID,
                               url |-> config.Host, token |-> config.Token,
                               apiURL |-> UrlString(apiURL),
                               authorization |-> "Bearer " \o config.Token]),
              err |-> NoErr]

UnknownChecksSdk ==
    <<Setting("account_id", "Unknown InfluxDB V3 Account ID"),
      Setting("cluster_id", "Unknown InfluxDB V3 Cluster ID"),
      Setting("token", "Unknown InfluxDB V3 Management Token"),
      Setting("url", "Unknown InfluxDB V3 Cloud Dedicated URL")>>

MissingChecksSdk ==
    <<Setting("account_id", "Missing InfluxDB V3 Account ID"),
      Setting("cluster_id", "Missing InfluxDB V3 Cluster ID"),
      Setting("token", "Missing InfluxDB Management Token"),
      Setting("url", "Missing InfluxDB Cloud Dedicated URL")>>

\* Configure of the provider with the url setting
ConfigureSdk(config, env) ==
    LET unknown == DiagsWhere(IsUnknown, UnknownChecksSdk, config)
        vals == [a \in {"account_id", "cluster_id", "token", "url"} |->
                    ConfigOrEnv(config[a], env[a])]
        missing == DiagsWhere(IsEmpty, MissingChecksSdk, vals)
        made == New([AccountID |-> vals["account_id"], ClusterID |-> vals["cluster_id"],
                     Host |-> vals["url"], Token |-> vals["token"]])
    IN  IF unknown # <<>> THEN Configured(unknown, None)
        ELSE IF missing # <<>> THEN Configured(missing, None)
        ELSE IF made.err # NoErr
        THEN Configured(<<Diag("Unable to Create InfluxDB V3 Client", made.err)>>, None)
        ELSE Configured(<<>>, made.client)

UnknownChecks == SubSeq(UnknownChecksSdk, 1, 3)

MissingChecks == SubSeq(MissingChecksSdk, 1, 3)

\* Configure of the later provider
Configure(config, env) ==
    LET unknown == DiagsWhere(IsUnknown, UnknownChecks, config)
        vals == [a \in {"account_id", "cluster_id", "token"} |->
                    ConfigOrEnv(config[a], env[a])]
        url == INFLUXDB3_HOST \o INFLUXDB3_API_ENDPOINT
        missing == DiagsWhere(IsEmpty, MissingChecks, vals)
        accountUUID == UuidParse(vals["account_id"])
        clusterUUID == UuidParse(vals["cluster_id"])
    IN  IF unknown # <<>> THEN Configured(unknown, None)
        ELSE IF missing # <<>> THEN Configured(missing, None)
        ELSE IF accountUUID = None
        THEN Configured(<<Diag("Missing InfluxDB V3 Account ID", <<"UUID format">>)>>, None)
        ELSE IF clusterUUID = None
        THEN Configured(<<Diag("Missing InfluxDB V3 Cluster ID", <<"UUID format">>)>>, None)
        ELSE Configured(<<>>,
                        Some([accountID |-> accountUUID[1], clusterID |-> clusterUUID[1],
                              url |-> url, token |-> vals["token"],
                              authorization |-> "Bearer " \o vals["token"]]))

AccountConfigs == {NullString, Unknown, "", "{acc-cfg-uuid}", "not-a-uuid"}
ClusterConfigs == {NullString, Unknown, "", "clu-cfg-uuid"}
TokenConfigs == {NullString, Unknown, "", "tok-cfg"}
UrlConfigs == {NullString, Unknown, "", "https://cfg.example/", BadUrl}

\* the provider configurations the schema of generation i admits: the later
\* schema has no url attribute
ProviderConfigs(i) ==
    [account_id : AccountConfigs, cluster_id : ClusterConfigs, token : TokenConfigs,
     url : IF i = "sdk" THEN UrlConfigs ELSE {NullString}]

\* the environment variables INFLUXDB3_ACCOUNT_ID, INFLUXDB3_CLUSTER_ID,
\* INFLUXDB3_TOKEN and INFLUXDB3_URL
Environments ==
    [account_id : {"", "acc-env-uuid"}, cluster_id : {"", "clu-env-uuid"},
     token : {"", "tok-env"}, url : {"", "https://env.example"}]

ProvDone(config, env, res) ==
    /\ prov' = Some([config |-> config, env |-> env, diags |-> res.diags,
                     client |-> res.client])
    /\ UNCHANGED <<conc, http, impl, managed, srvDbs, srvTokens, srvNextId, dbState, tokState,
                   pending, last>>

\* the framework configures a provider instance once
RunConfigureSdk ==
    /\ impl = "sdk" /\ prov = None
    /\ \E config \in ProviderConfigs(impl), env \in Environments :
          ProvDone(config, env, ConfigureSdk(config, env))

RunConfigure ==
    /\ impl = "oapi" /\ prov = None
    /\ \E config \in ProviderConfigs(impl), env \in Environments :
          ProvDone(config, env, Configure(config, env))

NextProvider ==
    \/ RunConfigureSdk
    \/ RunConfigure

SpecProvider == Init /\ [][NextProvider]_vars

(***************************************************************************)
(* The clients at the level of HTTP.  A call of the internal client builds *)
(* one request in makeAPICall and hands it to HTTPClient.Do, which blocks  *)
(* until the response or an error is there.  The generated client of the   *)
(* later provider sends through retryablehttp: its Do blocks the same way, *)
(* asks CheckRetry after every attempt and sends again while retries       *)
(* remain; with the retries used up on a failure it returns "giving up     *)
(* after N attempt(s)" in place of the response.  http.sent counts the     *)
(* requests sent for the current call, http.seen holds their outcomes.     *)
(***************************************************************************)
RetryMax == 3

\* statuses that stand for 429 Too Many Requests and the 5xx server errors
RetryableStatuses == {429, 500}

\* a policy under which no outcome is retried
CheckRetryNever(x) == FALSE

\* a policy under which every outcome is retried
CheckRetryAlways(x) == TRUE

\* retryablehttp.DefaultRetryPolicy: a connection error, 429 and every 5xx
\* but 501 are retried
CheckRetry(x) == x.transport \/ x.status = 429 \/ (x.status >= 500 /\ x.status # 501)

\* the retry loop of retryablehttp: attempt number sent may be followed by
\* another one (remain := RetryMax - i; if remain <= 0 { break })
RetriesRemain(sent) == RetryMax - (sent - 1) > 0

\* 501 Not Implemented is the server error the policy does not retry
HttpOutcomes ==
    {TransportError}
    \cup {Outcome(FALSE, s, FALSE) : s \in Statuses \cup RetryableStatuses \cup {501}}

Hosts == {"https://cfg.example", "https://cfg.example/", "https://cfg.example//",
          "https://env.example/influx", "https://env.example/influx/", BadUrl}

ManagementTokens == {"tok-cfg", "tok-env"}

\* a request header
Header(name, value) == <<name, value>>

\* the headers makeAPICall sets on its request
MakeAPICallHeaders(c) ==
    {Header("Accept", "application/json"), Header("Authorization", c.authorization),
     Header("Content-Type", "application/json")}

\* a request editor that sets no Authorization header
RequestEditorFnAcceptOnly(token) == {Header("Accept", "application/json")}

\* the request editor Configure gives the generated client
RequestEditorFn(token) ==
    {Header("Accept", "application/json"), Header("Authorization", "Bearer " \o token)}

\* the headers of a request of the generated client: its request builders
\* set Content-Type on the requests with a JSON body, then the editor runs
GeneratedHeaders(op, c) ==
    (IF op.method \in {"POST", "PATCH"} THEN {Header("Content-Type", "application/json")}
     ELSE {})
    \cup RequestEditorFn(c.token)

\* the configurations Configure passes to New: no value is empty, and
\* the ids are whatever the practitioner wrote
ClientConfigs ==
    [Host : Hosts, AccountID : {"acc-cfg-uuid", "not-a-uuid", ".."},
     ClusterID : {"clu-cfg-uuid"}, Token : ManagementTokens]

Operation(name, method, api, arg) ==
    [name |-> name, method |-> method, api |-> api, arg |-> arg]

\* the functions of the internal client with the arguments of their request
Operations ==
    {Operation("CreateToken", "POST", TokenAPIPath, ""),
     Operation("GetTokens", "GET", TokenAPIPath, ""),
     Operation("CreateDatabase", "POST", DatabaseAPIPath, ""),
     Operation("GetDatabases", "GET", DatabaseAPIPath, ""),
     Operation("GetDatabaseByName", "GET", DatabaseAPIPath, "")}
    \cup {Operation("DeleteToken", "DELETE", TokenAPIPath, TokenIds[n]) : n \in DOMAIN TokenIds}
    \cup {Operation("GetTokenByID", "GET", TokenAPIPath, TokenIds[n]) : n \in DOMAIN TokenIds}
    \cup {Operation("UpdateToken", "PATCH", TokenAPIPath, TokenIds[n]) : n \in DOMAIN TokenIds}
    \cup {Operation("DeleteDatabase", "DELETE", DatabaseAPIPath, d) : d \in DbNames}
    \cup {Operation("UpdateDatabase", "PATCH", DatabaseAPIPath, d) : d \in DbNames}

\* the operations of the generated client the resources and data sources call
GeneratedOperations ==
    {Operation("CreateDatabaseToken", "POST", TokenAPIPath, ""),
     Operation("CreateClusterDatabase", "POST", DatabaseAPIPath, ""),
     Operation("GetClusterDatabases", "GET", DatabaseAPIPath, "")}
    \cup {Operation("DeleteDatabaseToken", "DELETE", TokenAPIPath, TokenIds[n]) : n \in DOMAIN TokenIds}
    \cup {Operation("GetDatabaseToken", "GET", TokenAPIPath, TokenIds[n]) : n \in DOMAIN TokenIds}
    \cup {Operation("UpdateDatabaseToken", "PATCH", TokenAPIPath, TokenIds[n]) : n \in DOMAIN TokenIds}
    \cup {Operation("DeleteClusterDatabase", "DELETE", DatabaseAPIPath, d) : d \in DbNames}
    \cup {Operation("UpdateClusterDatabase", "PATCH", DatabaseAPIPath, d) : d \in DbNames}

HttpDone(h) ==
    /\ http' = h
    /\ UNCHANGED <<conc, impl, managed, srvDbs, srvTokens, srvNextId, dbState, tokState,
                   pending, last, prov>>

\* Configure of the provider with the url setting makes the internal client
ClientNew ==
    /\ impl = "sdk" /\ http.client = None /\ http.err = NoErr
    /\ \E config \in ClientConfigs :
          LET made == New(config) IN
          HttpDone([http EXCEPT !.client = made.client, !.err = made.err])

\* Configure of the later provider makes the generated client over a
\* retrying HTTP client
ClientNewWithResponses ==
    /\ impl = "oapi" /\ http.client = None
    /\ \E token \in ManagementTokens :
          HttpDone([http EXCEPT !.client =
                    Some([accountID |-> "acc-cfg-uuid", clusterID |-> "clu-cfg-uuid",
                          url |-> INFLUXDB3_HOST \o INFLUXDB3_API_ENDPOINT,
                          token |-> token,
                          apiURL |-> INFLUXDB3_HOST \o INFLUXDB3_API_ENDPOINT
                                        \o "/accounts/acc-cfg-uuid/clusters/clu-cfg-uuid/",
                          authorization |-> "Bearer " \o token])])

\* a call begins: the request is built from the fields of the client and
\* sent; the caller waits
Send(op, headers) ==
    /\ http.client # None /\ http.phase \in {"idle", "returned"}
    /\ HttpDone([http EXCEPT !.op = op.name, !.method = op.method,
                             !.url = http.client[1].apiURL \o Join(op.api, op.arg),
                             !.authorization = http.client[1].authorization,
                             !.headers = headers,
                             !.sent = 1, !.seen = <<>>, !.phase = "inflight",
                             !.err = NoErr])

\* makeAPICall up to HTTPClient.Do
MakeAPICallSend ==
    impl = "sdk" /\ \E op \in Operations : Send(op, MakeAPICallHeaders(http.client[1]))

\* an operation of the generated client up to the Do of the retrying client
GeneratedSend ==
    impl = "oapi"
        /\ \E op \in GeneratedOperations : Send(op, GeneratedHeaders(op, http.client[1]))

\* the server answers the request in flight, or the connection fails
Respond ==
    /\ http.phase = "inflight"
    /\ \E x \in HttpOutcomes :
          HttpDone([http EXCEPT !.seen = Append(@, x), !.phase = "received"])

LastSeen == http.seen[Len(http.seen)]

\* makeAPICall from the return of HTTPClient.Do on
MakeAPICallReturn ==
    /\ impl = "sdk" /\ http.phase = "received"
    /\ HttpDone([http EXCEPT !.phase = "returned",
                             !.err = makeAPICall(Response(LastSeen, None)).err])

\* the retry loop sends the request again
RetrySend ==
    /\ impl = "oapi" /\ http.phase = "received"
    /\ CheckRetry(LastSeen) /\ RetriesRemain(http.sent)
    /\ HttpDone([http EXCEPT !.sent = @ + 1, !.phase = "inflight"])

\* the retry loop ends and the operation of the generated client returns
GeneratedReturn ==
    /\ impl = "oapi" /\ http.phase = "received"
    /\ ~(CheckRetry(LastSeen) /\ RetriesRemain(http.sent))
    /\ HttpDone([http EXCEPT !.phase = "returned",
                             !.err = IF CheckRetry(LastSeen)
                                     THEN <<http.method, " ", http.url, " giving up after ",
                                            ToString(http.sent), " attempt(s)">>
                                     ELSE NoErr])

NextClient ==
    \/ ClientNew
    \/ ClientNewWithResponses
    \/ MakeAPICallSend
    \/ GeneratedSend
    \/ Respond
    \/ MakeAPICallReturn
    \/ RetrySend
    \/ GeneratedReturn

SpecClient == Init /\ [][NextClient]_vars

\* HTTPClient.Do of the internal client ends: its http.Client has a Timeout
\* of 10 seconds, after which Do returns an error
RespondInTime == impl = "sdk" /\ Respond

\* the code that waits for the end of an attempt runs on, and an attempt of
\* the internal client ends.  The retrying client is made without a timeout
\* and the requests carry no deadline: an attempt the server never answers
\* never ends, so nothing is assumed of Respond for it.
SpecClientFair ==
    /\ SpecClient
    /\ WF_vars(RespondInTime) /\ WF_vars(MakeAPICallReturn)
    /\ WF_vars(RetrySend) /\ WF_vars(GeneratedReturn)

(***************************************************************************)
(* Resource operations running concurrently.  Configure makes one client   *)
(* and every resource takes it from the provider data in its own Configure *)
(* (r.client = ...).  The framework then runs the handlers of different    *)
(* resource instances in goroutines of their own.  A handler builds its    *)
(* request from the fields of the client, the server answers one request   *)
(* at a time, and the handler writes the state of its own instance; the    *)
(* steps of different handlers interleave freely.  Beside each instance    *)
(* the model runs the same handler with the same inputs against a server   *)
(* that holds the databases of that instance only (alone).                 *)
(***************************************************************************)
\* the configurations of instance p: its database, the table limit varies
ConcConfigs(i, p) ==
    {DatabaseModel(Unknown, Unknown, InstanceName[p], mt, mc, rp,
                   IF i = "sdk" THEN Some(<<>>) ELSE None) :
        mt \in MaxTablesValues, mc \in MaxColumnsValues, rp \in RetentionValues}

\* the databases of dbs with that name
Own(dbs, name) == SelectSeq(dbs, LAMBDA d : d.name = name)

\* the request line of a handler's call
ConcRequest(op, name) ==
    IF op = "Create" THEN Request("POST", <<DatabaseAPIPath>>, Some([name |-> name]))
    ELSE IF op = "Read" THEN Request("GET", <<DatabaseAPIPath>>, None)
    ELSE IF op = "Update" THEN Request("PATCH", PathJoin(DatabaseAPIPath, name), None)
    ELSE Request("DELETE", PathJoin(DatabaseAPIPath, name), None)

ConcOutcomes(op, name, dbs) == Outcomes(DbAllowed(ConcRequest(op, name), dbs), {StatusOK})

Outcome3(res) == [state |-> res.state, diags |-> res.diags, panicked |-> res.panicked]

ConcDone(c) ==
    /\ conc' = c
    /\ UNCHANGED <<http, impl, managed, srvTokens, srvNextId, dbState, tokState, pending,
                   last, prov>>

\* provider Configure and the Configure of the resources: the one client
ConfigureShared ==
    /\ managed = "database" /\ conc.client = None
    /\ LET made == IF impl = "sdk"
                   THEN New([Host |-> "https://cfg.example", AccountID |-> AccountId,
                             ClusterID |-> ClusterId, Token |-> "tok-cfg"]).client
                   ELSE Some([accountID |-> AccountId, clusterID |-> ClusterId,
                              url |-> INFLUXDB3_HOST \o INFLUXDB3_API_ENDPOINT,
                              token |-> "tok-cfg",
                              apiURL |-> INFLUXDB3_HOST \o INFLUXDB3_API_ENDPOINT
                                            \o "/accounts/" \o AccountId
                                            \o "/clusters/" \o ClusterId \o "/",
                              authorization |-> "Bearer " \o "tok-cfg"])
      IN  ConcDone([conc EXCEPT !.client = made])
    /\ UNCHANGED srvDbs

\* the framework calls a handler of instance p, which builds its request
\* from the fields of the shared client
Begin(p, entry) ==
    /\ managed = "database" /\ conc.client # None
    /\ conc.procs[p].pc = "idle"
    /\ ConcDone([conc EXCEPT
          !.procs[p].pc = "sent", !.procs[p].op = entry.op, !.procs[p].plan = entry.plan,
          !.procs[p].url = conc.client[1].apiURL
                              \o JoinWith(ConcRequest(entry.op, InstanceName[p]).path, "/"),
          !.procs[p].authorization = conc.client[1].authorization])
    /\ UNCHANGED srvDbs

\* terraform apply: the first operation planned for a configuration
BeginApply ==
    \E p \in Instances : \E cfg \in ConcConfigs(impl, p) :
        /\ PlannedDb(impl, conc.procs[p].state, cfg) # <<>>
        /\ Begin(p, Head(PlannedDb(impl, conc.procs[p].state, cfg)))

\* terraform refresh
BeginRefresh ==
    \E p \in Instances : conc.procs[p].state # None /\ Begin(p, Refresh)

\* terraform destroy
BeginDestroy ==
    \E p \in Instances :
        conc.procs[p].state # None /\ Begin(p, Planned("Delete", None, {}, FALSE))

\* the server takes the request of instance p and answers it with outcome
\* x; res is what the handler makes of the answer, solo what it makes of the
\* answer of the server that instance p has to itself
Served(p, x, res, solo) ==
    /\ srvDbs' = res.srv
    /\ ConcDone([conc EXCEPT
          !.procs[p].pc = "answered",
          !.procs[p].res = Outcome3(res),
          !.procs[p].alone.res = Outcome3(solo),
          !.procs[p].alone.srv = solo.srv,
          !.procs[p].alone.allowed =
              x \in ConcOutcomes(conc.procs[p].op, InstanceName[p], conc.procs[p].alone.srv)])

Sent(i, p, op) == impl = i /\ conc.procs[p].pc = "sent" /\ conc.procs[p].op = op

ServeCreateSdk ==
    \E p \in Instances :
        /\ Sent("sdk", p, "Create")
        /\ \E x \in ConcOutcomes("Create", InstanceName[p], srvDbs) :
              Served(p, x, DatabaseCreateSdk(conc.procs[p].plan[1], x, srvDbs),
                     DatabaseCreateSdk(conc.procs[p].plan[1], x, conc.procs[p].alone.srv))

ServeReadSdk ==
    \E p \in Instances :
        /\ Sent("sdk", p, "Read")
        /\ \E x \in ConcOutcomes("Read", InstanceName[p], srvDbs) :
              Served(p, x, DatabaseReadSdk(conc.procs[p].state[1], x, srvDbs),
                     DatabaseReadSdk(conc.procs[p].alone.state[1], x, conc.procs[p].alone.srv))

ServeUpdateSdk ==
    \E p \in Instances :
        /\ Sent("sdk", p, "Update")
        /\ \E x \in ConcOutcomes("Update", InstanceName[p], srvDbs) :
              Served(p, x,
                     DatabaseUpdateSdk(conc.procs[p].state[1], conc.procs[p].plan[1], x, srvDbs),
                     DatabaseUpdateSdk(conc.procs[p].alone.state[1], conc.procs[p].plan[1], x,
                                       conc.procs[p].alone.srv))

ServeDeleteSdk ==
    \E p \in Instances :
        /\ Sent("sdk", p, "Delete")
        /\ \E x \in ConcOutcomes("Delete", InstanceName[p], srvDbs) :
              Served(p, x, DatabaseDeleteSdk(conc.procs[p].state[1], x, srvDbs),
                     DatabaseDeleteSdk(conc.procs[p].alone.state[1], x, conc.procs[p].alone.srv))

ServeCreate ==
    \E p \in Instances :
        /\ Sent("oapi", p, "Create")
        /\ \E x \in ConcOutcomes("Create", InstanceName[p], srvDbs) :
              Served(p, x, DatabaseCreate(conc.procs[p].plan[1], x, srvDbs),
                     DatabaseCreate(conc.procs[p].plan[1], x, conc.procs[p].alone.srv))

ServeRead ==
    \E p \in Instances :
        /\ Sent("oapi", p, "Read")
        /\ \E x \in ConcOutcomes("Read", InstanceName[p], srvDbs) :
              Served(p, x, DatabaseRead(conc.procs[p].state[1], x, srvDbs),
                     DatabaseRead(conc.procs[p].alone.state[1], x, conc.procs[p].alone.srv))

ServeUpdate ==
    \E p \in Instances :
        /\ Sent("oapi", p, "Update")
        /\ \E x \in ConcOutcomes("Update", InstanceName[p], srvDbs) :
              Served(p, x,
                     DatabaseUpdate(conc.procs[p].state[1], conc.procs[p].plan[1], x, srvDbs),
                     DatabaseUpdate(conc.procs[p].alone.state[1], conc.procs[p].plan[1], x,
                                    conc.procs[p].alone.srv))

ServeDelete ==
    \E p \in Instances :
        /\ Sent("oapi", p, "Delete")
        /\ \E x \in ConcOutcomes("Delete", InstanceName[p], srvDbs) :
              Served(p, x, DatabaseDelete(conc.procs[p].state[1], x, srvDbs),
                     DatabaseDelete(conc.procs[p].alone.state[1], x, conc.procs[p].alone.srv))

\* the handler of instance p returns and the framework keeps its state
Finish ==
    \E p \in Instances :
        /\ conc.procs[p].pc = "answered"
        /\ ConcDone([conc EXCEPT
              !.procs[p] = [Resting EXCEPT
                  !.state = conc.procs[p].res.state,
                  !.alone = [srv |-> conc.procs[p].alone.srv,
                             state |-> conc.procs[p].alone.res.state,
                             res |-> NoResult, allowed |-> TRUE]]])
        /\ UNCHANGED srvDbs

NextConcurrent ==
    \/ ConfigureShared
    \/ BeginApply
    \/ BeginRefresh
    \/ BeginDestroy
    \/ ServeCreateSdk
    \/ ServeReadSdk
    \/ ServeUpdateSdk
    \/ ServeDeleteSdk
    \/ ServeCreate
    \/ ServeRead
    \/ ServeUpdate
    \/ ServeDelete
    \/ Finish

SpecConcurrent == Init /\ [][NextConcurrent]_vars

(***************************************************************************)
(* terraform import.  ImportState of both resources is                     *)
(* resource.ImportStatePassthroughID: the state of the resource becomes    *)
(* null but for the one attribute the identifier is written to.  The       *)
(* framework then calls Read with that state; when Read ends with an error *)
(* the import fails and nothing is kept.  The objects imported were made   *)
(* by someone else: the server holds them, the Terraform state does not.   *)
(***************************************************************************)
Ok200 == Outcome(FALSE, StatusOK, FALSE)

\* the partition templates of databases made by another client
ServerSideTemplates(i) ==
    IF i = "sdk"
    THEN {Some(<<>>), Some(<<Part("tag", "line"), Part("time", "%Y")>>)}
    ELSE {Some(<<>>),
          Some(<<WireString("tag", "line"),
                 WireObject("bucket", [nb |-> 10, tag |-> "temperature"]),
                 WireString("time", "%Y")>>)}

\* another client creates a database
OutOfBandDatabase ==
    /\ managed = "database" /\ pending = <<>>
    /\ \E n \in DbNames, mt \in MaxTablesValues, pt \in ServerSideTemplates(impl) :
          /\ DbIndex(srvDbs, n) = 0
          /\ srvDbs' = ServerDb(Request("POST", <<DatabaseAPIPath>>,
                                        Some([name |-> n, maxTables |-> I64(0, mt.lo),
                                              maxColumnsPerTable |-> I64(0, 200),
                                              retentionPeriod |-> 604800,
                                              partitionTemplate |-> pt])),
                                Ok200, srvDbs).dbs
    /\ UNCHANGED <<conc, http, impl, managed, srvTokens, srvNextId, dbState, tokState,
                   pending, last, prov>>

\* another client creates a token
OutOfBandToken ==
    /\ managed = "token" /\ pending = <<>> /\ srvNextId <= MaxTokens
    /\ \E cfg \in TokConfigs :
          LET ex == ServerTok(Request("POST", <<TokenAPIPath>>,
                                      Some([description |-> cfg.description,
                                            permissions |-> IF impl = "sdk"
                                                            THEN PermissionsRequestSdk(cfg)
                                                            ELSE PermissionsRequest(cfg)])),
                              Ok200, srvTokens, srvNextId)
          IN  srvTokens' = ex.toks /\ srvNextId' = ex.next
    /\ UNCHANGED <<conc, http, impl, managed, srvDbs, dbState, tokState, pending, last, prov>>

\* an ImportState that writes the identifier to account_id
DatabaseImportStateAccount(id) ==
    DatabaseModel(id, NullString, NullString, NullString, NullString, NullString, None)

\* DatabaseResource.ImportState: the identifier becomes the name
DatabaseImportState(id) ==
    DatabaseModel(NullString, NullString, id, NullString, NullString, NullString, None)

\* TokenResource.ImportState: the identifier becomes the id
TokenImportState(id) ==
    TokenModel(NullString, NullString, NullString, NullString, NullString, id, None)

ImportRead == Planned("ImportRead", None, {}, FALSE)

ImportIds == {TokenIds[n] : n \in DOMAIN TokenIds} \cup {"not-a-uuid"}

ImportDatabase ==
    /\ managed = "database" /\ pending = <<>> /\ dbState = None
    /\ \E id \in DbNames :
          /\ dbState' = Some(DatabaseImportState(id))
          /\ last' = [NoLast EXCEPT !.op = "Import", !.data = Some(id)]
    /\ pending' = <<ImportRead>>
    /\ UNCHANGED <<conc, http, impl, managed, srvDbs, srvTokens, srvNextId, tokState, prov>>

ImportToken ==
    /\ managed = "token" /\ pending = <<>> /\ tokState = None
    /\ \E id \in ImportIds :
          /\ tokState' = Some(TokenImportState(id))
          /\ last' = [NoLast EXCEPT !.op = "Import", !.data = Some(id)]
    /\ pending' = <<ImportRead>>
    /\ UNCHANGED <<conc, http, impl, managed, srvDbs, srvTokens, srvNextId, dbState, prov>>

\* the framework after the Read of an import returned res
DbImportDone(res) ==
    /\ dbState' = IF Failed(res) THEN None ELSE res.state
    /\ srvDbs' = res.srv
    /\ last' = Last("ImportRead", ImportRead, res)
    /\ pending' = <<>>
    /\ UNCHANGED <<conc, http, impl, managed, srvTokens, srvNextId, tokState, prov>>

TokImportDone(res) ==
    /\ tokState' = IF Failed(res) THEN None ELSE res.state
    /\ srvTokens' = res.srv.toks
    /\ srvNextId' = res.srv.next
    /\ last' = Last("ImportRead", ImportRead, res)
    /\ pending' = <<>>
    /\ UNCHANGED <<conc, http, impl, managed, srvDbs, dbState, prov>>

RunDatabaseImportReadSdk ==
    /\ impl = "sdk" /\ managed = "database" /\ Next1("ImportRead")
    /\ \E x \in ListOutcomes : DbImportDone(DatabaseReadSdk(dbState[1], x, srvDbs))

RunDatabaseImportRead ==
    /\ impl = "oapi" /\ managed = "database" /\ Next1("ImportRead")
    /\ \E x \in ListOutcomes : DbImportDone(DatabaseRead(dbState[1], x, srvDbs))

RunTokenImportReadSdk ==
    /\ impl = "sdk" /\ managed = "token" /\ Next1("ImportRead")
    /\ \E x \in TokOutcomes("GET", PathJoin(TokenAPIPath, tokState[1].id)) :
          TokImportDone(TokenReadSdk(tokState[1], x, srvTokens, srvNextId))

RunTokenImportRead ==
    /\ impl = "oapi" /\ managed = "token" /\ Next1("ImportRead")
    /\ \E x \in TokOutcomes("GET", PathJoin(TokenAPIPath, tokState[1].id)) :
          TokImportDone(TokenRead(tokState[1], x, srvTokens, srvNextId))

NextImport ==
    \/ OutOfBandDatabase
    \/ OutOfBandToken
    \/ ImportDatabase
    \/ ImportToken
    \/ RunDatabaseImportReadSdk
    \/ RunDatabaseImportRead
    \/ RunTokenImportReadSdk
    \/ RunTokenImportRead

SpecImport == Init /\ [][NextImport]_vars

(***************************************************************************)
(* The list data sources: TokensDataSource over the internal client and    *)
(* DatabasesDataSource over the generated client.  They take no            *)
(* configuration; their state starts null and is the list the handler      *)
(* writes.                                                                 *)
(***************************************************************************)
MaxListed == 2

\* another client creates a token; the list answers hold no access token
OutOfBandListedToken ==
    /\ managed = "token" /\ pending = <<>> /\ Len(srvTokens) < MaxListed
    /\ \E cfg \in TokConfigs :
          srvTokens' = Append(srvTokens,
                              [accessToken |-> "", accountId |-> AccountId,
                               createdAt |-> "created-" \o ToString(Len(srvTokens) + 1),
                               clusterId |-> ClusterId, description |-> cfg.description,
                               id |-> "uuid-" \o ToString(Len(srvTokens) + 1),
                               permissions |-> PermissionsRequestSdk(cfg)])
    /\ UNCHANGED <<conc, http, impl, managed, srvDbs, srvNextId, dbState, tokState, pending,
                   last, prov>>

\* an element that leaves the description of the token out
TokensDataSourceElemBlank(token) ==
    TokenModel(token.accessToken, token.accountId, token.createdAt, token.clusterId,
               "", token.id,
               IF token.permissions = None \/ token.permissions = Some(<<>>) THEN None
               ELSE Some(MapSeq(getPermissionsElemSdk, token.permissions[1])))

\* one iteration of the loop of TokensDataSource.Read: the permissions stay
\* a nil slice when the token has none
TokensDataSourceElem(token) ==
    TokenModel(token.accessToken, token.accountId, token.createdAt, token.clusterId,
               token.description, token.id,
               IF token.permissions = None \/ token.permissions = Some(<<>>) THEN None
               ELSE Some(MapSeq(getPermissionsElemSdk, token.permissions[1])))

TokensDataSourceRead(x, toks, next) ==
    LET c == GetTokens(x, toks, next) IN
    IF c.err # NoErr
    THEN Result(None, <<Diag("Error getting Tokenss", c.err)>>, <<Exchange(c)>>, c.srv, FALSE)
    ELSE Result(Some(MapSeq(TokensDataSourceElem, c.value[1])), <<>>, <<Exchange(c)>>,
                c.srv, FALSE)

\* one iteration of the loop of DatabasesDataSource.Read
DatabasesDataSourceElem(database) ==
    FromApiDatabase(database, getPartitionTemplate(database.partitionTemplate))

DatabasesDataSourceRead(x, dbs) ==
    LET req == Request("GET", <<DatabaseAPIPath>>, None)
        ex == ServerDb(req, x, dbs)
        c == [req |-> req, resp |-> ex.resp]
    IN  IF ex.resp.transport
        THEN Result(None, <<Diag("Error getting databases", <<"transport error">>)>>,
                    <<c>>, ex.dbs, FALSE)
        ELSE IF ex.resp.status # StatusOK
        THEN Result(None, <<StatusDiag("Error getting databases", ex.resp)>>,
                    <<c>>, ex.dbs, FALSE)
        ELSE IF ex.resp.body = None
        THEN Result(None, <<>>, <<c>>, ex.dbs, TRUE)
        ELSE Result(Some(MapSeq(DatabasesDataSourceElem, ex.resp.body[1])), <<>>,
                    <<c>>, ex.dbs, FALSE)

ListRead == Planned("ListRead", None, {}, FALSE)

\* the framework after the Read of a list data source returned res
ListDone(res) ==
    /\ last' = [Last("ListRead", ListRead, res) EXCEPT !.data = res.state]
    /\ UNCHANGED <<conc, http, impl, managed, srvDbs, srvTokens, srvNextId, dbState, tokState,
                   pending, prov>>

RunTokensDataSourceRead ==
    /\ impl = "sdk" /\ managed = "token" /\ pending = <<>>
    /\ \E x \in TokOutcomes("GET", <<TokenAPIPath>>) :
          ListDone(TokensDataSourceRead(x, srvTokens, srvNextId))

RunDatabasesDataSourceRead ==
    /\ impl = "oapi" /\ managed = "database" /\ pending = <<>>
    /\ \E x \in ListOutcomes : ListDone(DatabasesDataSourceRead(x, srvDbs))

NextList ==
    \/ OutOfBandDatabase
    \/ OutOfBandListedToken
    \/ RunTokensDataSourceRead
    \/ RunDatabasesDataSourceRead

SpecList == Init /\ [][NextList]_vars

(***************************************************************************)
(* Validation of the configuration of a database resource of the           *)
(* generated-client generation: the validators of the schema run before    *)
(* the plan, and a configuration with an error diagnostic is never         *)
(* applied.  The validators of a null list are not run.                    *)
(***************************************************************************)
MaxTagParts == 9

Unique(s) == \A i, j \in DOMAIN s : s[i] = s[j] => i = j

\* listvalidator.UniqueValues
UniqueValues(list) ==
    IF Unique(list) THEN <<>>
    ELSE <<Diag("Duplicate List Value", <<"This attribute contains duplicate values">>)>>

\* listvalidator.SizeBetween(1, 8)
SizeBetween(list) ==
    IF Len(list) >= 1 /\ Len(list) <= 8 THEN <<>>
    ELSE <<Diag("Invalid Attribute Value",
                <<"list must contain at least 1 elements and at most 8 elements, got: ",
                  ToString(Len(list))>>)>>

PartTypes == {"bucket", "tag", "time"}

\* stringvalidator.OneOf("bucket", "tag", "time") on the type of a part
OneOf(part) ==
    IF part.type \in PartTypes THEN <<>>
    ELSE <<Diag("Invalid Attribute Value Match",
                <<"value must be one of: [bucket tag time], got: ", part.type>>)>>

\* the diagnostics of the validators of partition_template
ValidatePartitionTemplate(pt) ==
    IF pt = None THEN <<>>
    ELSE UniqueValues(pt[1]) \o SizeBetween(pt[1]) \o FlatMapSeq(OneOf, pt[1])

\* the templates of the configurations validated: tags parts "t1", "t2", ...,
\* then a bucket part, then time parts, then a part of another type, and
\* the first part once more
TemplateOf(tags, buckets, times, others, again) ==
    LET parts == [i \in 1..tags |-> Part("tag", "t" \o ToString(i))]
                 \o (IF buckets = 1 THEN <<Part("bucket", BucketCanonical)>> ELSE <<>>)
                 \o SubSeq(<<Part("time", "%Y"), Part("time", "%m")>>, 1, times)
                 \o (IF others = 1 THEN <<Part("hash", "line")>> ELSE <<>>)
    IN  IF again /\ parts # <<>> THEN Append(parts, parts[1]) ELSE parts

ValidatedTemplates ==
    {None} \cup {Some(TemplateOf(tags, buckets, times, others, again)) :
                    tags \in 0..MaxTagParts, buckets \in 0..1, times \in 0..2,
                    others \in 0..1, again \in BOOLEAN}

\* terraform validates the configuration of a run and, when it is valid,
\* plans and applies the creation of the database
ValidateDatabase ==
    /\ impl = "oapi" /\ managed = "database" /\ pending = <<>> /\ dbState = None
    /\ last = NoLast
    /\ \E pt \in ValidatedTemplates :
          LET cfg == DatabaseModel(Unknown, Unknown, "signals", I64(0, 500), I64(0, 200),
                                   604800, pt)
              diags == ValidatePartitionTemplate(pt)
          IN  /\ last' = [NoLast EXCEPT !.op = "Validate", !.plan = Some(cfg),
                                        !.diags = diags]
              /\ pending' = IF diags = <<>> THEN <<Planned("Create", Some(cfg), {}, FALSE)>>
                            ELSE <<>>
    /\ UNCHANGED <<conc, http, impl, managed, srvDbs, srvTokens, srvNextId, dbState, tokState,
                   prov>>

NextValidate ==
    \/ ValidateDatabase
    \/ RunDatabaseCreate

SpecValidate == Init /\ [][NextValidate]_vars

(***************************************************************************)
(* getPartitionTemplate on the partition templates the API can answer      *)
(* with: nil, or up to MaxParts parts.  A part of the generated client is  *)
(* a union that also holds parts the API does not describe (a time part    *)
(* whose value is an object).                                              *)
(***************************************************************************)
MaxParts == 3

SeqsUpTo(S, n) == UNION {[1..k -> S] : k \in 0..n}

ApiParts ==
    {WireString("tag", "line"), WireString("time", "%Y"),
     WireObject("bucket", [nb |-> 10, tag |-> "temperature"]),
     WireString("tag", "region"),
     WireObject("time", [nb |-> 10, tag |-> "temperature"])}

ApiPartsSdk == {Part("tag", "line"), Part("time", "%Y"), Part("bucket", BucketCanonical)}

ApiTemplates(i) ==
    {None} \cup {Some(t) : t \in SeqsUpTo(IF i = "sdk" THEN ApiPartsSdk ELSE ApiParts, MaxParts)}

TemplateMapped(pt, result) ==
    /\ last' = [NoLast EXCEPT !.op = "getPartitionTemplate",
                              !.plan = Some([partitionTemplate |-> pt]),
                              !.data = Some([partition_template |-> result])]
    /\ UNCHANGED <<conc, http, impl, managed, srvDbs, srvTokens, srvNextId, dbState, tokState,
                   pending, prov>>

MapTemplateSdk ==
    /\ impl = "sdk" /\ managed = "database"
    /\ \E pt \in ApiTemplates(impl) : TemplateMapped(pt, getPartitionTemplateSdk(pt))

MapTemplate ==
    /\ impl = "oapi" /\ managed = "database"
    /\ \E pt \in ApiTemplates(impl) : TemplateMapped(pt, getPartitionTemplate(pt))

NextTemplate ==
    \/ MapTemplateSdk
    \/ MapTemplate

SpecTemplate == Init /\ [][NextTemplate]_vars

(***************************************************************************)
(* Configure of a resource or data source.  The framework hands it         *)
(* req.ProviderData: nil before the provider is configured, afterwards     *)
(* what the provider's Configure stored in ResourceData and                *)
(* DataSourceData.  A value is modelled with the name of its Go type.      *)
(***************************************************************************)
ProviderData(type, value) == [type |-> type, value |-> value]

\* the clients the earlier provider hands out
ClientValues ==
    {ProviderData("influxdb3.Client", New(c).client) :
        c \in [Host : {"https://cfg.example/", "https://env.example/influx"},
               AccountID : {"acc-cfg-uuid"}, ClusterID : {"clu-cfg-uuid"},
               Token : ManagementTokens]}

\* the providerData structs the later provider hands out
ProviderDataValues ==
    {ProviderData("provider.providerData",
                  LET client == Configure(config, [account_id |-> "acc-env-uuid",
                                                   cluster_id |-> "clu-env-uuid",
                                                   token |-> "tok-env", url |-> ""]).client
                  IN  Some([accountID |-> client[1].accountID, client |-> client[1],
                            clusterID |-> client[1].clusterID])) :
        config \in [account_id : {NullString, "{acc-cfg-uuid}"},
                    cluster_id : {NullString, "clu-cfg-uuid"},
                    token : {NullString, "tok-cfg"}, url : {NullString}]}

RequestProviderData ==
    {ProviderData("nil", None), ProviderData("string", None)}
        \cup ClientValues \cup ProviderDataValues

\* &DatabaseResource{} of the earlier provider
NewDatabaseResource == [client |-> None]

\* &TokenResource{} and &TokenDataSource{} of the later provider
NewTokenResource == [accountID |-> "", client |-> None, clusterID |-> ""]

UnexpectedType(summary, expected, pd) ==
    Diag(summary, <<"Expected ", expected, ", got: ", pd.type,
                    ". Please report this issue to the provider developers.">>)

DatabaseResourceConfigure(r, pd) ==
    IF pd.type = "nil" THEN [r |-> r, diags |-> <<>>]
    ELSE IF pd.type # "influxdb3.Client"
    THEN [r |-> r,
          diags |-> <<UnexpectedType("Unexpected Data Source Configure Type",
                                     "influxdb3.Client", pd)>>]
    ELSE [r |-> [r EXCEPT !.client = pd.value], diags |-> <<>>]

\* a Configure that passes over a value of another type in silence
TokenResourceConfigureSilent(r, pd) ==
    IF pd.type # "provider.providerData" THEN [r |-> r, diags |-> <<>>]
    ELSE [r |-> [accountID |-> pd.value[1].accountID, client |-> Some(pd.value[1].client),
                 clusterID |-> pd.value[1].clusterID],
          diags |-> <<>>]

TokenResourceConfigure(r, pd) ==
    IF pd.type = "nil" THEN [r |-> r, diags |-> <<>>]
    ELSE IF pd.type # "provider.providerData"
    THEN [r |-> r,
          diags |-> <<UnexpectedType("Unexpected Resource Configure Type",
                                     "influxdb3.ClientWithResponses", pd)>>]
    ELSE [r |-> [accountID |-> pd.value[1].accountID, client |-> Some(pd.value[1].client),
                 clusterID |-> pd.value[1].clusterID],
          diags |-> <<>>]

TokenDataSourceConfigure(d, pd) ==
    IF pd.type = "nil" THEN [r |-> d, diags |-> <<>>]
    ELSE IF pd.type # "provider.providerData"
    THEN [r |-> d,
          diags |-> <<UnexpectedType("Unexpected Data Source Configure Type",
                                     "influxdb3.ClientWithResponses", pd)>>]
    ELSE [r |-> [accountID |-> pd.value[1].accountID, client |-> Some(pd.value[1].client),
                 clusterID |-> pd.value[1].clusterID],
          diags |-> <<>>]

\* the instance Configure is called on: the one the last call left, or a new one
Instance(kind, new) == IF last.op = kind THEN last.data[1] ELSE new

ConfigureDone(kind, before, pd, res) ==
    /\ last' = [NoLast EXCEPT !.op = kind, !.plan = Some([pd |-> pd, before |-> before]),
                              !.diags = res.diags, !.data = Some(res.r)]
    /\ UNCHANGED <<conc, http, impl, managed, srvDbs, srvTokens, srvNextId, dbState, tokState,
                   pending, prov>>

RunDatabaseResourceConfigure ==
    /\ impl = "sdk" /\ managed = "database"
    /\ \E pd \in RequestProviderData :
          LET r == Instance("DatabaseResource.Configure", NewDatabaseResource) IN
          ConfigureDone("DatabaseResource.Configure", r, pd, DatabaseResourceConfigure(r, pd))

RunTokenResourceConfigure ==
    /\ impl = "oapi" /\ managed = "token"
    /\ \E pd \in RequestProviderData :
          LET r == Instance("TokenResource.Configure", NewTokenResource) IN
          ConfigureDone("TokenResource.Configure", r, pd, TokenResourceConfigure(r, pd))

RunTokenDataSourceConfigure ==
    /\ impl = "oapi" /\ managed = "token"
    /\ \E pd \in RequestProviderData :
          LET d == Instance("TokenDataSource.Configure", NewTokenResource) IN
          ConfigureDone("TokenDataSource.Configure", d, pd, TokenDataSourceConfigure(d, pd))

NextResource ==
    \/ RunDatabaseResourceConfigure
    \/ RunTokenResourceConfigure
    \/ RunTokenDataSourceConfigure

SpecResource == Init /\ [][NextResource]_vars

(***************************************************************************)
(* Token ids that are not UUIDs.  The state of a token resource is what    *)
(* the state file holds, and the id of the token data source is what the   *)
(* configuration gives: either may hold an id that is not a UUID.          *)
(***************************************************************************)
\* another client creates a token before terraform runs
OutOfBandIssuedToken ==
    /\ impl = "oapi" /\ managed = "token" /\ pending = <<>> /\ tokState = None
    /\ last = NoLast /\ srvNextId <= MaxTokens
    /\ LET ex == ServerTok(Request("POST", <<TokenAPIPath>>,
                                  Some([description |-> "d1", permissions |-> None])),
                          Ok200, srvTokens, srvNextId)
       IN  srvTokens' = ex.toks /\ srvNextId' = ex.next
    /\ UNCHANGED <<conc, http, impl, managed, srvDbs, dbState, tokState, pending, last, prov>>

\* terraform loads the state of the token from the state file
StateFromFile ==
    /\ impl = "oapi" /\ managed = "token" /\ pending = <<>> /\ tokState = None
    /\ last = NoLast
    /\ \E id \in ImportIds, d \in Descriptions :
          tokState' = Some(TokenModel("secret", AccountId, "created", ClusterId, d, id,
                                      Some(<<>>)))
    /\ last' = [NoLast EXCEPT !.op = "StateFromFile"]
    /\ UNCHANGED <<conc, http, impl, managed, srvDbs, srvTokens, srvNextId, dbState, pending,
                   prov>>

\* TokenDataSource.Read: the configuration gives the id
TokenDataSourceRead(config, x, toks, next) ==
    LET req == Request("GET", PathJoin(TokenAPIPath, config.id), None)
        ex == ServerTok(req, x, toks, next)
        c == [req |-> req, resp |-> ex.resp]
    IN  IF ~IsUUID(config.id)
        THEN Result(None, <<UuidDiag>>, <<>>, [toks |-> toks, next |-> next], FALSE)
        ELSE IF ex.resp.transport
        THEN Result(None, <<Diag("Error getting token", <<"transport error">>)>>,
                    <<c>>, TokSrv(ex), FALSE)
        ELSE IF ex.resp.status # StatusOK
        THEN Result(None, <<Diag("Error getting token", StatusDetail(ex.resp.status))>>,
                    <<c>>, TokSrv(ex), FALSE)
        ELSE IF ex.resp.body = None
        THEN Result(None, <<>>, <<c>>, TokSrv(ex), TRUE)
        ELSE Result(Some(FromApiToken(config.access_token, ex.resp.body[1])),
                    <<>>, <<c>>, TokSrv(ex), FALSE)

\* a configuration that holds the data source alone
RunTokenDataSourceRead ==
    /\ impl = "oapi" /\ managed = "token" /\ pending = <<>> /\ tokState = None
    /\ \E id \in ImportIds :
          LET config == TokenImportState(id) IN
          \E x \in TokOutcomes("GET", PathJoin(TokenAPIPath, id)) :
              LET res == TokenDataSourceRead(config, x, srvTokens, srvNextId) IN
              /\ srvTokens' = res.srv.toks
              /\ srvNextId' = res.srv.next
              /\ last' = [Last("DataRead", Planned("DataRead", Some(config), {}, FALSE), res)
                             EXCEPT !.data = res.state]
    /\ UNCHANGED <<conc, http, impl, managed, srvDbs, dbState, tokState, pending, prov>>

NextTokenId ==
    \/ OutOfBandIssuedToken
    \/ StateFromFile
    \/ PlanToken
    \/ PlanDestroyToken
    \/ RunTokenRead
    \/ RunTokenUpdate
    \/ RunTokenDelete
    \/ RunTokenDataSourceRead

SpecTokenId == Init /\ [][NextTokenId]_vars

(***************************************************************************)
(* The error statuses of the generated client.  formatErrorResponse has    *)
(* two versions: the earlier one asserts the type of the field and reads   *)
(* the error without a nil check.                                          *)
(***************************************************************************)
\* the earlier formatErrorResponse: its message, its error, and whether it
\* dereferenced a nil *influxdb3.Error
formatErrorResponseEarlier(resp, statusCode) ==
    IF statusCode \notin TypedErrorStatuses
    THEN [msg |-> <<>>, err |-> <<"field JSON", ToString(statusCode), " not found">>,
          panicked |-> FALSE]
    ELSE IF resp.error = None
         THEN [msg |-> <<>>, err |-> NoErr, panicked |-> TRUE]
         ELSE [msg |-> <<"HTTP Status Code: ", ToString(statusCode),
                         "Error Code: ", ToString(resp.error[1].code),
                         "Error Message: ", resp.error[1].message>>,
               err |-> NoErr, panicked |-> FALSE]

\* TokenResource.Create built with the earlier formatErrorResponse
TokenCreateEarlier(plan, x, toks, next) ==
    LET createTokenRequest == [description |-> plan.description,
                               permissions |-> PermissionsRequest(plan)]
        req == Request("POST", <<TokenAPIPath>>, Some(createTokenRequest))
        ex == ServerTok(req, x, toks, next)
        c == [req |-> req, resp |-> ex.resp]
        f == formatErrorResponseEarlier(ex.resp, ex.resp.status)
    IN  IF ex.resp.transport
        THEN Result(None,
                    <<Diag("Error creating token",
                           <<"Could not create token, unexpected error: ", "transport error">>)>>,
                    <<c>>, TokSrv(ex), FALSE)
        ELSE IF ex.resp.status # StatusOK
        THEN IF f.panicked THEN Result(None, <<>>, <<c>>, TokSrv(ex), TRUE)
             ELSE IF f.err # NoErr
             THEN Result(None, <<Diag("Error formatting error response", f.err)>>,
                         <<c>>, TokSrv(ex), FALSE)
             ELSE Result(None, <<Diag("Error creating token", f.msg)>>,
                         <<c>>, TokSrv(ex), FALSE)
        ELSE IF ex.resp.body = None
        THEN Result(None, <<>>, <<c>>, TokSrv(ex), TRUE)
        ELSE LET r == ex.resp.body[1] IN
             Result(Some(FromApiToken(r.accessToken, r)), <<>>, <<c>>, TokSrv(ex), FALSE)

RunTokenCreateEarlier ==
    /\ impl = "oapi" /\ managed = "token" /\ Next1("Create")
    /\ srvNextId <= MaxTokens
    /\ \E x \in TokOutcomes("POST", <<TokenAPIPath>>) :
          TokDone("Create", Head(pending),
                  TokenCreateEarlier(Head(pending).plan[1], x, srvTokens, srvNextId))

NextErrors ==
    \/ PlanToken
    \/ PlanDestroyToken
    \/ RunTokenCreate
    \/ RunTokenCreateEarlier
    \/ RunTokenRead
    \/ RunTokenUpdate
    \/ RunTokenDelete
    \/ OutOfBandDatabase
    \/ RunDatabasesDataSourceRead

SpecErrors == Init /\ [][NextErrors]_vars

(***************************************************************************)
(* The limits of a database on the wire of the generated client: the       *)
(* schema gives max_tables and max_columns_per_table no validator, so a    *)
(* plan may hold any 64-bit value.  I64(hi, lo) is the value               *)
(* hi * 2^32 + lo with lo a signed 32-bit number: 2^32 - 1 is I64(1, -1).  *)
(***************************************************************************)
LimitValues ==
    {I64(0, 500), I64(0, 2147483647), I64(0, -1), I64(1, -1), I64(1, 5), I64(-1, 7)}

ColumnValues == {I64(0, 200), I64(1, -2147483647)}

\* terraform plans the creation or the update of a database with such limits
PlanLimits ==
    /\ impl = "oapi" /\ managed = "database" /\ pending = <<>>
    /\ \E mt \in LimitValues, mc \in ColumnValues :
          LET cfg == DatabaseModel(Unknown, Unknown, "signals", mt, mc, 604800, None) IN
          /\ PlannedDb(impl, dbState, cfg) # <<>>
          /\ pending' = PlannedDb(impl, dbState, cfg)
    /\ UNCHANGED <<conc, http, impl, managed, srvDbs, srvTokens, srvNextId, dbState, tokState,
                   last, prov>>

NextNarrow ==
    \/ PlanLimits
    \/ RunDatabaseCreate
    \/ RunDatabaseUpdate

SpecNarrow == Init /\ [][NextNarrow]_vars

(***************************************************************************)
(* The lookup of a database by name over any list the GET databases may    *)
(* answer.  The list is the server's: the client checks nothing of it, so  *)
(* it may hold several databases of one name.                              *)
(***************************************************************************)
MaxScanned == 3

ScannedDatabases ==
    {[accountId |-> AccountId, clusterId |-> ClusterId, name |-> n,
      maxTables |-> mt, maxColumnsPerTable |-> I64(0, 200),
      retentionPeriod |-> 604800, partitionTemplate |-> None] :
        n \in DbNames, mt \in {I64(0, 500), I64(0, 7)}}

\* the list the server will answer gains a database, of a new name or not
DatabaseListed ==
    /\ managed = "database" /\ pending = <<>> /\ dbState = None /\ last = NoLast
    /\ Len(srvDbs) < MaxScanned
    /\ \E db \in ScannedDatabases : srvDbs' = Append(srvDbs, db)
    /\ UNCHANGED <<conc, http, impl, managed, srvTokens, srvNextId, dbState, tokState,
                   pending, last, prov>>

\* the prior state of the database resource, as Read gets it from the
\* state file of an earlier apply
DatabaseStateFromFile ==
    /\ managed = "database" /\ pending = <<>> /\ dbState = None /\ last = NoLast
    /\ \E n \in DbNames :
          dbState' = Some(DatabaseModel(AccountId, ClusterId, n, I64(0, 500), I64(0, 200),
                                        604800,
                                        IF impl = "sdk" THEN Some(<<>>) ELSE None))
    /\ last' = [NoLast EXCEPT !.op = "StateFromFile"]
    /\ UNCHANGED <<conc, http, impl, managed, srvDbs, srvTokens, srvNextId, tokState,
                   pending, prov>>

NextScan ==
    \/ DatabaseListed
    \/ DatabaseStateFromFile
    \/ RunDatabaseReadSdk
    \/ RunDatabaseRead
    \/ RunDatabaseDataSourceReadSdk
    \/ RunDatabaseDataSourceRead

SpecScan == InitDatabase /\ [][NextScan]_vars

(***************************************************************************)
(* Properties.                                                             *)
(***************************************************************************)
Ok == last.diags = <<>> /\ ~last.panicked

\* the message msg holds the piece
Mentions(msg, piece) == \E i \in DOMAIN msg : msg[i] = piece

SameAttributes(state, plan) == \A a \in DbAttributes : state[a] = plan[a]

\* C1: a successful Create of a database with plan P directly followed by a
\* successful Read leaves in the Terraform state the name, max_tables,
\* max_columns_per_table, retention_period and partition_template of P.
C1_CreateReadRoundTrip ==
    [][(last.op = "Create" /\ Ok /\ last.plan # None
          /\ last'.op = "Read" /\ Ok' /\ dbState' # None)
          => SameAttributes(dbState'[1], last.plan[1])]_vars

DeleteTokenStep == RunDeleteToken \/ RunTokenDeleteSdk \/ RunTokenDelete

\* the error of the last delete of a token names the status 404 (Not Found):
\* the error of DeleteToken, or the error diagnostic of the resource
NotFoundReported ==
    IF last.op = "DeleteToken"
    THEN last.calls[1].err # NoErr /\ Mentions(last.calls[1].err, ToString(StatusNotFound))
    ELSE /\ last.diags # <<>>
         /\ Mentions(last.diags[1].detail, ToString(StatusNotFound))
         /\ tokState # None

\* C2: a delete of a token whose id is not on the server (DeleteToken of the
\* SDK, Delete of the token resource), once the server has answered it,
\* returns an error naming the status 404 Not Found, and the resource stays
\* in the Terraform state.
C2_DeleteMissingToken ==
    [][(/\ DeleteTokenStep
        /\ last'.calls # <<>>
        /\ ~last'.calls[1].resp.transport
        /\ TokIndex(srvTokens, last'.calls[1].req.path[2]) = 0)
          => NotFoundReported']_vars

C2_Witness ==
    /\ managed = "token" /\ last.op \in {"Delete", "DeleteToken"}
    /\ last.calls # <<>> /\ ~last.calls[1].resp.transport
    /\ last.calls[1].resp.status = StatusNotFound
    /\ TokIndex(srvTokens, last.calls[1].req.path[2]) = 0
    /\ NotFoundReported

\* C3: after a successful Create of a token the permissions in the Terraform
\* state are those of the plan the request was built from: as many, in the
\* same order, each with the same action and resource.
C3_PermissionsRoundTrip ==
    (managed = "token" /\ last.op = "Create" /\ Ok) =>
        LET got == tokState[1].permissions[1]
            asked == last.plan[1].permissions[1]
        IN  /\ Len(got) = Len(asked)
            /\ \A i \in 1..Len(asked) :
                  /\ got[i].action = asked[i].action
                  /\ got[i].resource = asked[i].resource

C3_Witness ==
    /\ managed = "token" /\ last.op = "Create" /\ Ok
    /\ tokState # None /\ tokState[1].permissions # None
    /\ Len(tokState[1].permissions[1]) = 2
    /\ tokState[1].permissions[1][1].resource = "*"

\* the calls of the internal client the last handler made
SdkCalls == IF impl = "sdk" THEN {last.calls[i] : i \in DOMAIN last.calls} ELSE {}

IsCreateDatabase(c) == c.req.method = "POST" /\ c.req.path = <<DatabaseAPIPath>>

IsGetTokenByID(c) ==
    c.req.method = "GET" /\ Len(c.req.path) = 2 /\ c.req.path[1] = TokenAPIPath

\* the status is none the call takes for success
Unaccepted(c) ==
    /\ ~c.resp.transport
    /\ c.resp.status # StatusOK
    /\ ~(c.req.method = "DELETE" /\ c.resp.status = StatusNoContent)

\* C4 as stated: a call of the client answered with a status other than 200
\* (or 204 for a delete) returns an error whose message holds the status code.
C4_ErrorEmbedsStatus ==
    \A c \in SdkCalls :
        Unaccepted(c) => c.err # NoErr /\ Mentions(c.err, ToString(c.resp.status))

\* C4, amended: a call of the client answered with a status other than 200
\* (or 204 for a delete) returns an error; its message holds the status code,
\* except for the 400 of CreateDatabase ("bad request, check your input") and
\* the 404 of GetTokenByID ("error getting token: <id> not found"); a delete
\* answered 204 returns no error.
C4_StatusErrors ==
    \A c \in SdkCalls :
        /\ Unaccepted(c) =>
              /\ c.err # NoErr
              /\ IF IsCreateDatabase(c) /\ c.resp.status = StatusBadRequest
                 THEN c.err = <<"bad request, check your input">>
                 ELSE IF IsGetTokenByID(c) /\ c.resp.status = StatusNotFound
                 THEN c.err = <<"error getting token: ", c.req.path[2], " not found">>
                 ELSE Mentions(c.err, ToString(c.resp.status))
        /\ (~c.resp.transport /\ c.req.method = "DELETE"
               /\ c.resp.status = StatusNoContent) => c.err = NoErr

C4_Witness ==
    \E c \in SdkCalls :
        /\ IsCreateDatabase(c) /\ ~c.resp.transport /\ c.resp.status = StatusBadRequest
        /\ c.err = <<"bad request, check your input">>

\* C5: a Delete of a database or token resource ends without error
\* diagnostic and with the resource removed from the Terraform state exactly
\* when the server answers the DELETE with 204; on any other status or a
\* transport error it ends with an error diagnostic and the resource in state.
C5_DeleteSucceedsOn204Only ==
    (last.op = "Delete" /\ last.calls # <<>>) =>
        LET c == last.calls[1]
            state == IF managed = "database" THEN dbState ELSE tokState
        IN  IF ~c.resp.transport /\ c.resp.status = StatusNoContent
            THEN last.diags = <<>> /\ state = None
            ELSE last.diags # <<>> /\ state # None

UpdateDatabaseStep == RunDatabaseUpdateSdk \/ RunDatabaseUpdate

\* the partition template a request body carries
BodyTemplate(b) ==
    IF "partitionTemplate" \in DOMAIN b THEN b.partitionTemplate ELSE None

ServerTemplates(dbs) == [i \in DOMAIN dbs |-> <<dbs[i].name, dbs[i].partitionTemplate>>]

\* C6: an Update of a database sends one PATCH for the database name of the
\* plan, with max tables, max columns per table and retention period and no
\* partition template; it changes no partition template on the server and
\* leaves partition_template in the Terraform state as it was.
C6_UpdateKeepsTemplate ==
    [][UpdateDatabaseStep =>
          /\ Len(last'.calls) = 1
          /\ last'.calls[1].req.method = "PATCH"
          /\ last'.calls[1].req.path = <<DatabaseAPIPath, last'.plan[1].name>>
          /\ BodyTemplate(last'.calls[1].req.body[1]) = None
          /\ {"maxTables", "maxColumnsPerTable", "retentionPeriod"}
                \subseteq DOMAIN last'.calls[1].req.body[1]
          /\ ServerTemplates(srvDbs') = ServerTemplates(srvDbs)
          /\ dbState' # None
          /\ dbState'[1].partition_template = dbState[1].partition_template]_vars

C6_Witness ==
    /\ managed = "database" /\ last.op = "Update" /\ Ok
    /\ dbState # None
    /\ dbState[1].partition_template \notin {None, Some(<<>>)}
    /\ \E i \in DOMAIN srvDbs :
          srvDbs[i].name = dbState[1].name /\ srvDbs[i].partitionTemplate # None

\* C7: a change of partition_template never reaches Update; it is planned as
\* a replacement, Delete then Create, and after the Create of the replacement
\* the Terraform state holds the database with the partition template of the
\* plan.
C7_TemplateChangeReplaces ==
    /\ (last.op = "Update" => "partition_template" \notin last.changed)
    /\ (pending # <<>> /\ "partition_template" \in Head(pending).changed)
          => Head(pending).replace /\ Head(pending).op \in {"Delete", "Create"}
    /\ (last.op = "Create" /\ Ok /\ "partition_template" \in last.changed)
          => /\ dbState # None
             /\ dbState[1].partition_template = last.plan[1].partition_template

\* C8: a change of the name of a database never reaches Update, so no PATCH
\* is sent for it; it is planned as a replacement, Delete then Create.
C8_NameChangeReplaces ==
    /\ (last.op = "Update" => "name" \notin last.changed)
    /\ (pending # <<>> /\ "name" \in Head(pending).changed)
          => Head(pending).replace /\ Head(pending).op \in {"Delete", "Create"}

CreateTokenStep == RunTokenCreateSdk \/ RunTokenCreate

ReadOrUpdateTokenStep ==
    RunTokenReadSdk \/ RunTokenUpdateSdk \/ RunTokenRead \/ RunTokenUpdate

\* C9: after a successful Create of a token access_token in the Terraform
\* state is the access token of the response, and every Read and Update
\* leaves access_token as it was.
C9_AccessTokenKept ==
    [][/\ (CreateTokenStep /\ Ok')
             => tokState'[1].access_token = last'.calls[1].resp.body[1].accessToken
       /\ ReadOrUpdateTokenStep
             => tokState' # None /\ tokState'[1].access_token = tokState[1].access_token]_vars

C9_Witness ==
    /\ managed = "token" /\ last.op = "Update" /\ Ok
    /\ tokState # None
    /\ tokState[1].access_token = "secret-1"
    /\ \E i \in DOMAIN srvTokens :
          srvTokens[i].id = tokState[1].id /\ srvTokens[i].accessToken = ""

Settings == {"account_id", "cluster_id", "token", "url"}

\* the configuration value when it is not null, else the environment variable
Chosen(p, a) == IF p.config[a] # NullString THEN p.config[a] ELSE p.env[a]

\* the value of setting a the client was built with
Used(p, a) ==
    IF a = "account_id" THEN p.client[1].accountID
    ELSE IF a = "cluster_id" THEN p.client[1].clusterID
    ELSE IF a = "token" THEN p.client[1].token
    ELSE p.client[1].url

\* a value as the UUID it denotes, when it denotes one
Canonical(v) == IF UuidParse(v) # None THEN UuidParse(v)[1] ELSE v

\* C10 as stated: each of the four settings of a configured client is the
\* configuration value when that is not null, else the environment variable.
C10_ConfigOverridesEnv ==
    (prov # None /\ prov[1].client # None) =>
        \A a \in Settings : Canonical(Used(prov[1], a)) = Canonical(Chosen(prov[1], a))

\* C10, amended: account_id, cluster_id and token of a configured client are
\* the configuration value when that is not null, else the environment
\* variable (the ids as the UUIDs they denote in the later provider); the url
\* follows the same rule in the provider that has the url setting, and is
\* INFLUXDB3_HOST followed by INFLUXDB3_API_ENDPOINT in the later provider.
C10_SettingsUsed ==
    (prov # None /\ prov[1].client # None) =>
        /\ Used(prov[1], "token") = Chosen(prov[1], "token")
        /\ \A a \in {"account_id", "cluster_id"} :
              IF impl = "sdk" THEN Used(prov[1], a) = Chosen(prov[1], a)
              ELSE Some(Used(prov[1], a)) = UuidParse(Chosen(prov[1], a))
        /\ Used(prov[1], "url") =
              IF impl = "sdk" THEN Chosen(prov[1], "url")
              ELSE INFLUXDB3_HOST \o INFLUXDB3_API_ENDPOINT

C10_Witness ==
    /\ prov # None /\ prov[1].client # None /\ impl = "oapi"
    /\ prov[1].config.account_id = "{acc-cfg-uuid}" /\ prov[1].env.account_id # ""
    /\ prov[1].config.token = NullString /\ prov[1].client[1].token = "tok-env"
    /\ prov[1].env.url # ""

\* the settings of the provider schema of the generation
ProviderSettings == IF impl = "sdk" THEN Settings ELSE Settings \ {"url"}

\* the setting has an unknown configuration value or an empty effective value
Offending(p, a) == Chosen(p, a) \in {Unknown, ""}

\* a diagnostic of the Configure names the setting
Reported(p, a) == \E i \in DOMAIN p.diags : p.diags[i].detail = <<a>>

\* C11 as stated: when a setting is unknown or empty, Configure hands out no
\* client and adds an error diagnostic for each such setting.
C11_EachOffendingReported ==
    prov # None =>
        ((\E a \in ProviderSettings : Offending(prov[1], a)) =>
            /\ prov[1].client = None
            /\ \A a \in ProviderSettings : Offending(prov[1], a) => Reported(prov[1], a))

\* C11, amended: Configure hands out a client only when no setting is unknown
\* or empty.  With an unknown configuration value it adds one error diagnostic
\* for each unknown setting and nothing else; with none unknown it adds one for
\* each setting whose effective value is empty; in both cases no client.
C11_OffendingSettings ==
    prov # None =>
        LET p == prov[1]
            unknown == {a \in ProviderSettings : IsUnknown(p.config[a])}
            empty == {a \in ProviderSettings : Chosen(p, a) = ""}
        IN  /\ p.client # None => unknown = {} /\ empty = {}
            /\ (unknown # {} \/ empty # {}) => p.client = None /\ p.diags # <<>>
            /\ unknown # {} =>
                  /\ Len(p.diags) = Cardinality(unknown)
                  /\ \A a \in unknown : Reported(p, a)
            /\ (unknown = {} /\ empty # {}) =>
                  /\ Len(p.diags) = Cardinality(empty)
                  /\ \A a \in empty : Reported(p, a)

C11_Witness ==
    /\ prov # None /\ prov[1].client = None
    /\ IsUnknown(prov[1].config.account_id)
    /\ Chosen(prov[1], "token") = ""
    /\ Len(prov[1].diags) = 1

\* C12: when the effective account id or cluster id is not in UUID format,
\* Configure adds an error diagnostic and hands out no client.
C12_UuidValidated ==
    prov # None =>
        ((\E a \in {"account_id", "cluster_id"} : UuidParse(Chosen(prov[1], a)) = None)
            => prov[1].client = None /\ prov[1].diags # <<>>)

ReadDatabaseStep ==
    \/ RunDatabaseReadSdk
    \/ RunDatabaseRead
    \/ RunDatabaseDataSourceReadSdk
    \/ RunDatabaseDataSourceRead

\* the exchange got the list of databases from the server
ListObtained(c) == ~c.resp.transport /\ c.resp.status = StatusOK /\ c.resp.body # None

\* the least index of L with a database of that name, 0 when there is none
FirstNamed(L, n) ==
    IF \E i \in DOMAIN L : L[i].name = n
    THEN CHOOSE i \in DOMAIN L :
            L[i].name = n /\ \A j \in DOMAIN L : L[j].name = n => i <= j
    ELSE 0

\* C14: a Read of the database resource or data source for name n that got
\* the list L of databases ends with the first database of L named n in the
\* state when L holds one, and otherwise with the error "error getting
\* database: n not found" of the SDK, a "Database not found" diagnostic
\* naming n, and no state written.
C14_GetByNameScansList ==
    [][(ReadDatabaseStep /\ last'.calls # <<>> /\ ListObtained(last'.calls[1])) =>
          LET L == last'.calls[1].resp.body[1]
              n == IF last'.op = "Read" THEN dbState[1].name ELSE last'.plan[1].name
              i == FirstNamed(L, n)
              got == IF last'.op = "Read" THEN dbState' ELSE last'.data
          IN  IF i # 0
              THEN /\ last'.diags = <<>>
                   /\ impl = "sdk" => last'.calls[1].err = NoErr
                   /\ got # None
                   /\ got[1].name = n
                   /\ got[1].max_tables = L[i].maxTables
                   /\ got[1].max_columns_per_table = L[i].maxColumnsPerTable
                   /\ got[1].retention_period = L[i].retentionPeriod
              ELSE /\ Len(last'.diags) = 1
                   /\ last'.diags[1].summary = "Database not found"
                   /\ Mentions(last'.diags[1].detail, n)
                   /\ impl = "sdk" =>
                         last'.calls[1].err = <<"error getting database: ", n, " not found">>
                   /\ IF last'.op = "Read" THEN dbState' = dbState ELSE last'.data = None]_vars

\* the list holds a database of another name and then two of the name
\* looked up, with different limits: the first of the two is the result
C14_Witness ==
    /\ impl = "oapi" /\ last.op = "DataRead" /\ Ok
    /\ last.calls # <<>> /\ ListObtained(last.calls[1])
    /\ last.plan # None /\ last.data # None
    /\ LET L == last.calls[1].resp.body[1] IN
          /\ Len(L) = 3
          /\ L[1].name # L[2].name /\ L[2].name = L[3].name
          /\ L[2].maxTables # L[3].maxTables
          /\ last.plan[1].name = L[2].name
          /\ last.data[1].name = L[2].name
          /\ last.data[1].max_tables = L[2].maxTables

\* C15: a Read of the token resource over the internal client, once the
\* server has answered GetTokenByID for id: on 404 the error is "error getting
\* token: id not found", on 200 with a token in the body there is no error
\* and the token is written to the state, on any other status the error is
\* "unexpected status code: N"; every error is the detail of the one error
\* diagnostic of the Read, and the state stays as it was.
C15_GetTokenByIDStatuses ==
    [][(RunTokenReadSdk /\ ~last'.calls[1].resp.transport) =>
          LET c == last'.calls[1]
              id == tokState[1].id
          IN  /\ c.req = Request("GET", <<TokenAPIPath, id>>, None)
              /\ IF c.resp.status = StatusNotFound
                 THEN c.err = <<"error getting token: ", id, " not found">>
                 ELSE IF c.resp.status = StatusOK
                 THEN c.resp.body # None =>
                         /\ c.err = NoErr /\ last'.diags = <<>>
                         /\ tokState'[1].id = c.resp.body[1].id
                         /\ tokState'[1].description = c.resp.body[1].description
                 ELSE c.err = UnexpectedStatus(c.resp.status)
              /\ c.err # NoErr =>
                    /\ last'.diags = <<Diag("Error getting Tokens", c.err)>>
                    /\ tokState' = tokState]_vars

C15_Witness ==
    /\ impl = "sdk" /\ managed = "token" /\ last.op = "Read"
    /\ last.calls # <<>> /\ last.diags # <<>>
    /\ last.calls[1].resp.status = StatusNotFound /\ ~last.calls[1].resp.transport
    /\ tokState # None /\ TokIndex(srvTokens, tokState[1].id) = 0
    /\ last.diags[1].detail = <<"error getting token: ", tokState[1].id, " not found">>

\* C16: a Create of the database resource over the internal client, once the
\* server has answered CreateDatabase: on 400 the error is "bad request, check
\* your input", on 200 with the database in the body there is no error and
\* that database is written to the state, on any other status the error is
\* "unexpected status code: N".  Whenever CreateDatabase returns an error (a
\* transport or decoding error included) the Create ends with an error
\* diagnostic and no database in the Terraform state.
C16_CreateDatabaseStatuses ==
    [][RunDatabaseCreateSdk =>
          LET c == last'.calls[1] IN
          /\ c.req.method = "POST" /\ c.req.path = <<DatabaseAPIPath>>
          /\ ~c.resp.transport =>
                IF c.resp.status = StatusBadRequest
                THEN c.err = <<"bad request, check your input">>
                ELSE IF c.resp.status = StatusOK
                THEN c.resp.body # None =>
                        /\ c.err = NoErr /\ last'.diags = <<>>
                        /\ dbState' # None
                        /\ dbState'[1].name = c.resp.body[1].name
                        /\ dbState'[1].name = last'.plan[1].name
                ELSE c.err = UnexpectedStatus(c.resp.status)
          /\ c.err # NoErr => last'.diags # <<>> /\ dbState' = None]_vars

C16_Witness ==
    /\ impl = "sdk" /\ managed = "database" /\ last.op = "Create"
    /\ last.calls # <<>> /\ last.plan # None
    /\ ~last.calls[1].resp.transport /\ last.calls[1].resp.status = StatusBadRequest
    /\ last.calls[1].err = <<"bad request, check your input">>
    /\ DbIndex(srvDbs, last.plan[1].name) # 0
    /\ dbState = None

CreateReadUpdateStep ==
    \/ RunDatabaseCreateSdk \/ RunDatabaseReadSdk \/ RunDatabaseUpdateSdk
    \/ RunDatabaseCreate \/ RunDatabaseRead \/ RunDatabaseUpdate
    \/ RunTokenCreateSdk \/ RunTokenReadSdk \/ RunTokenUpdateSdk
    \/ RunTokenCreate \/ RunTokenRead \/ RunTokenUpdate

\* the exchange failed: a transport error or a status other than 200
CallFailed(c) == c.resp.transport \/ c.resp.status # StatusOK

\* C18: when the API call of a Create, Read or Update of a database or token
\* resource fails (transport error or a status other than 200), the operation
\* ends with an error diagnostic, has sent that one request only, changed
\* nothing on the server, and leaves the Terraform state as it was.
C18_FirstFailureSurfaced ==
    [][(CreateReadUpdateStep /\ last'.calls # <<>> /\ CallFailed(last'.calls[1])) =>
          /\ last'.diags # <<>>
          /\ Len(last'.calls) = 1
          /\ dbState' = dbState /\ tokState' = tokState
          /\ srvDbs' = srvDbs /\ srvTokens' = srvTokens]_vars

C18_Witness ==
    /\ last.op = "Update" /\ managed = "token" /\ impl = "oapi"
    /\ Len(last.calls) = 1 /\ ~last.calls[1].resp.transport
    /\ last.calls[1].resp.status = StatusBadRequest
    /\ last.diags # <<>>
    /\ tokState # None /\ last.plan # None
    /\ tokState[1].description # last.plan[1].description

(***************************************************************************)
(* Retries and the HTTP exchanges of one client operation.                 *)
(***************************************************************************)
\* an outcome that is a failure a later attempt may not meet again
Transient(x) == x.transport \/ x.status \in RetryableStatuses

\* an outcome that is not a success
AttemptFailed(x) == x.transport \/ x.status \notin {StatusOK, StatusNoContent}

AllSeen(Test(_)) == \A i \in 1..Len(http.seen) : Test(http.seen[i])

GivingUp ==
    <<http.method, " ", http.url, " giving up after ", ToString(RetryMax + 1), " attempt(s)">>

\* C13 as stated: an operation of the provider with the retrying client
\* whose every attempt failed was sent at least 1 + RetryMax times before
\* it returned.
C13_FailingRetried ==
    (impl = "oapi" /\ http.phase = "returned" /\ AllSeen(AttemptFailed))
        => http.sent >= RetryMax + 1

C13_Bounded ==
    /\ http.sent <= RetryMax + 1
    /\ (impl = "sdk" /\ http.phase = "returned") => http.sent = 1
    /\ (impl = "oapi" /\ http.phase = "returned" /\ AllSeen(Transient))
          => (http.sent = RetryMax + 1 /\ http.err = GivingUp)
    /\ (impl = "oapi" /\ http.phase = "returned" /\ ~Transient(http.seen[1]))
          => (http.sent = 1 /\ http.err = NoErr)

\* C13: with the retrying client a request whose attempts all end in a
\* connection error, 429 or a retried 5xx is sent 1 + RetryMax times and then
\* reported as "giving up after 4 attempt(s)"; any other response is handed
\* back after the one attempt and the internal client sends once; no
\* operation sends more than 1 + RetryMax requests.  An operation of the
\* internal client that was begun returns; an operation of the retrying
\* client that was begun returns unless one of its attempts never ends (the
\* server never answers it and the connection never fails).
C13_Unanswered == impl = "oapi" /\ http.phase = "inflight"

C13_Returns == (http.phase = "inflight") ~> (http.phase = "returned" \/ []C13_Unanswered)

C13_BoundedRetries == []C13_Bounded /\ C13_Returns

C13_Witness ==
    /\ impl = "oapi" /\ http.phase = "returned"
    /\ http.sent = RetryMax + 1 /\ AllSeen(Transient)
    /\ http.err = GivingUp

\* a host without the slashes at its end
TrimSlashes(h) ==
    LET keep == {k \in 0..Len(h) : \A j \in (k + 1)..Len(h) : SubSeq(h, j, j) = "/"}
    IN  SubSeq(h, 1, CHOOSE k \in keep : \A o \in keep : k <= o)

BaseUrl(c) ==
    TrimSlashes(c.url) \o "/api/v0/accounts/" \o c.accountID
        \o "/clusters/" \o c.clusterID \o "/"

ResourcePaths ==
    {DatabaseAPIPath, TokenAPIPath}
    \cup {DatabaseAPIPath \o "/" \o d : d \in DbNames}
    \cup {TokenAPIPath \o "/" \o TokenIds[n] : n \in DOMAIN TokenIds}

\* C17: the base URL of the internal client is the host, without the slash
\* at its end, followed by /api/v0/accounts/{accountID}/clusters/{clusterID}/
\* and the URL of every request is the base URL followed by a resource path.
C17_BaseUrl ==
    (impl = "sdk" /\ http.client # None)
        => /\ http.client[1].apiURL = BaseUrl(http.client[1])
           /\ http.phase # "idle"
                 => \E p \in ResourcePaths : http.url = BaseUrl(http.client[1]) \o p

\* C19 as stated: an operation that returned sent exactly one request.
C19_ExactlyOneRequest == http.phase = "returned" => http.sent = 1

\* C19: an operation has at most one request outstanding, sends the next
\* only after the one before has completed or failed, and returns only after
\* its last one has; the internal client sends one request, the retrying
\* client between one and 1 + RetryMax, each but the last answered by a
\* connection error, 429 or a retried 5xx.
C19_SequentialExchanges ==
    /\ http.phase = "idle" => (http.sent = 0 /\ http.seen = <<>>)
    /\ http.phase = "inflight" => (http.sent >= 1 /\ Len(http.seen) = http.sent - 1)
    /\ http.phase \in {"received", "returned"}
          => (http.sent >= 1 /\ Len(http.seen) = http.sent)
    /\ impl = "sdk" => http.sent <= 1
    /\ impl = "oapi"
          => /\ http.sent <= RetryMax + 1
             /\ \A i \in 1..Len(http.seen) : i < http.sent => Transient(http.seen[i])
    /\ (impl = "oapi" /\ http.phase = "returned" /\ http.sent < RetryMax + 1)
          => ~Transient(LastSeen)

C19_Witness ==
    /\ impl = "oapi" /\ http.phase = "returned" /\ http.op = "GetClusterDatabases"
    /\ http.sent = 2 /\ Len(http.seen) = 2 /\ Transient(http.seen[1]) /\ http.seen[2].status = StatusOK
    /\ http.err = NoErr

(***************************************************************************)
(* Concurrent resource operations over the shared client.                  *)
(***************************************************************************)
SameAsAlone(p) ==
    LET me == conc.procs[p] IN
    /\ me.alone.allowed
    /\ me.res = me.alone.res
    /\ me.state = me.alone.state
    /\ Own(srvDbs, InstanceName[p]) = me.alone.srv

ReadsSharedClient(p) ==
    LET me == conc.procs[p] IN
    me.pc # "idle"
        => /\ me.authorization = conc.client[1].authorization
           /\ HasPrefix(me.url, conc.client[1].apiURL)

ClientWritten == conc.client # None /\ conc'.client # conc.client

\* C20: whatever the interleaving, an operation on one resource instance
\* ends with the diagnostics and the Terraform state it ends with when that
\* instance runs by itself, and leaves its database on the server as it
\* would then; every request is built from the fields Configure gave the
\* shared client, and no step writes them afterwards.
C20_Independent ==
    /\ [](\A p \in Instances : SameAsAlone(p) /\ ReadsSharedClient(p))
    /\ [][~ClientWritten]_vars

C20_Witness ==
    /\ Len(srvDbs) = 2
    /\ conc.procs[1].pc = "answered" /\ conc.procs[1].op = "Update"
    /\ conc.procs[1].res.diags = <<>> /\ ~conc.procs[1].res.panicked
    /\ conc.procs[2].pc = "answered" /\ conc.procs[2].op = "Read"
    /\ conc.procs[2].res.diags = <<>> /\ ~conc.procs[2].res.panicked
    /\ srvDbs[1].name = InstanceName[1]

(***************************************************************************)
(* The headers of the requests.                                            *)
(***************************************************************************)
Carries(name, value) == Header(name, value) \in http.headers

HeaderNames == {h[1] : h \in http.headers}

\* C21 as stated: every request carries Accept, Content-Type and the
\* Authorization of the configured token.
C21_ThreeHeaders ==
    http.phase # "idle"
        => /\ Carries("Accept", "application/json")
           /\ Carries("Content-Type", "application/json")
           /\ Carries("Authorization", "Bearer " \o http.client[1].token)

\* C21: every request, the first attempt and every retry of it, carries
\* Accept: application/json and Authorization: Bearer and the configured
\* token, each once; a request of the internal client always carries
\* Content-Type: application/json, a request of the generated client carries
\* it exactly when it has a body (POST, PATCH).
C21_Headers ==
    http.phase # "idle"
        => /\ Carries("Accept", "application/json")
           /\ Carries("Authorization", "Bearer " \o http.client[1].token)
           /\ impl = "sdk" => Carries("Content-Type", "application/json")
           /\ impl = "oapi" => (Carries("Content-Type", "application/json")
                                   <=> http.method \in {"POST", "PATCH"})
           /\ Cardinality(http.headers) = Cardinality(HeaderNames)
           /\ HeaderNames \subseteq {"Accept", "Authorization", "Content-Type"}

C21_Witness ==
    /\ impl = "oapi" /\ http.phase = "inflight" /\ http.sent = 2
    /\ http.method = "GET" /\ http.client # None /\ http.client[1].token = "tok-env"
    /\ http.headers = {Header("Accept", "application/json"),
                       Header("Authorization", "Bearer tok-env")}

(***************************************************************************)
(* Update of a token.                                                      *)
(***************************************************************************)
UpdateTokenStep == RunTokenUpdateSdk \/ RunTokenUpdate

\* C22: after a successful Update of a token whose description changed the
\* Terraform state holds the description of the plan, the id it held before
\* and as many permissions as the plan, and the server holds the tokens it
\* held before, one of them patched: none was created.
C22_UpdateInPlace ==
    [][(UpdateTokenStep /\ "description" \in Head(pending).changed /\ Ok')
          => /\ tokState' # None
             /\ tokState'[1].description = Head(pending).plan[1].description
             /\ tokState'[1].id = tokState[1].id
             /\ Len(tokState'[1].permissions[1]) = Len(Head(pending).plan[1].permissions[1])
             /\ Len(srvTokens') = Len(srvTokens)
             /\ srvNextId' = srvNextId
             /\ \A i \in DOMAIN srvTokens : srvTokens'[i].id = srvTokens[i].id]_vars

C22_Witness ==
    /\ managed = "token" /\ impl = "sdk" /\ last.op = "Update" /\ Ok
    /\ "description" \in last.changed
    /\ tokState # None /\ last.plan # None /\ tokState[1].permissions # None
    /\ tokState[1].description = last.plan[1].description
    /\ Len(tokState[1].permissions[1]) = 2
    /\ Len(srvTokens) = 1 /\ srvTokens[1].description = tokState[1].description

(***************************************************************************)
(* Import.                                                                 *)
(***************************************************************************)
Imported == last.op = "Import"

ImportedRead == last.op = "ImportRead" /\ Ok

NullBut(state, attr) ==
    \A a \in DOMAIN state \ {attr} :
        IF a \in {"partition_template", "permissions"} THEN state[a] = None
        ELSE state[a] = NullString

\* the parts of a template in state are those of the server's template
SamePartsSdk(got, stored) ==
    /\ Len(got) = Len(stored)
    /\ \A i \in DOMAIN stored : got[i].type = stored[i].type /\ got[i].value = stored[i].value

SameParts(got, stored) ==
    /\ Len(got) = Len(stored)
    /\ \A i \in DOMAIN stored :
          /\ got[i].type = stored[i].type
          /\ IF stored[i].vkind = "object"
             THEN UnmarshalBucket(got[i].value) = [err |-> NoErr, obj |-> stored[i].obj]
             ELSE got[i].value = stored[i].str

DatabaseAsOnServer(state, d) ==
    /\ state.name = d.name
    /\ state.account_id = d.accountId /\ state.cluster_id = d.clusterId
    /\ state.max_tables = d.maxTables
    /\ state.max_columns_per_table = d.maxColumnsPerTable
    /\ state.retention_period = d.retentionPeriod
    /\ IF d.partitionTemplate = None
       THEN state.partition_template \in {None, Some(<<>>)}
       ELSE /\ state.partition_template # None
            /\ IF impl = "sdk"
               THEN SamePartsSdk(state.partition_template[1], d.partitionTemplate[1])
               ELSE SameParts(state.partition_template[1], d.partitionTemplate[1])

SamePermissions(got, stored) ==
    /\ Len(got) = Len(stored)
    /\ \A i \in DOMAIN stored :
          IF impl = "sdk"
          THEN got[i].action = stored[i].action /\ got[i].resource = stored[i].resource
          ELSE got[i].action = stored[i].action[1] /\ got[i].resource = stored[i].resource.str

TokenAsOnServer(state, t) ==
    /\ state.id = t.id /\ state.description = t.description
    /\ state.account_id = t.accountId /\ state.cluster_id = t.clusterId
    /\ state.created_at = t.createdAt
    /\ state.permissions # None
    /\ SamePermissions(state.permissions[1], IF t.permissions = None THEN <<>>
                                             ELSE t.permissions[1])

\* C23: ImportState leaves a state that is null but for the name of the
\* database, or the id of the token, which is the import identifier; when
\* the Read that follows ends without error, the state holds the attributes
\* the server holds for the object of that name or id (the bucket value of a
\* partition template as the JSON text of the server's object).  The access
\* token, which the server does not return, stays null.
C23_ImportThenRead ==
    /\ (Imported /\ managed = "database")
          => /\ dbState # None /\ dbState[1].name = last.data[1]
             /\ NullBut(dbState[1], "name")
    /\ (Imported /\ managed = "token")
          => /\ tokState # None /\ tokState[1].id = last.data[1]
             /\ NullBut(tokState[1], "id")
    /\ (ImportedRead /\ managed = "database")
          => /\ dbState # None
             /\ DbIndex(srvDbs, dbState[1].name) # 0
             /\ DatabaseAsOnServer(dbState[1], srvDbs[DbIndex(srvDbs, dbState[1].name)])
    /\ (ImportedRead /\ managed = "token")
          => /\ tokState # None
             /\ TokIndex(srvTokens, tokState[1].id) # 0
             /\ TokenAsOnServer(tokState[1], srvTokens[TokIndex(srvTokens, tokState[1].id)])
             /\ tokState[1].access_token = NullString

C23_Witness ==
    /\ ImportedRead /\ managed = "database" /\ impl = "oapi"
    /\ Len(srvDbs) = 2 /\ dbState # None /\ dbState[1].name = srvDbs[2].name
    /\ srvDbs[2].partitionTemplate # None /\ dbState[1].partition_template # None
    /\ Len(dbState[1].partition_template[1]) = 3

(***************************************************************************)
(* List data sources.                                                      *)
(***************************************************************************)
ListedRead == last.op = "ListRead"

\* the list the server answered the list request with
ListAnswered == last.calls[1].resp.body[1]

\* the list request failed: no response, or a response with another status
ListFailed ==
    \/ last.calls[1].resp.transport
    \/ last.calls[1].resp.status # StatusOK

TokenListed(elem, t) ==
    /\ elem.id = t.id /\ elem.description = t.description
    /\ elem.account_id = t.accountId /\ elem.cluster_id = t.clusterId
    /\ elem.created_at = t.createdAt /\ elem.access_token = t.accessToken
    /\ SamePermissions(IF elem.permissions = None THEN <<>> ELSE elem.permissions[1],
                       IF t.permissions = None THEN <<>> ELSE t.permissions[1])

\* C24: after the Read of the tokens or of the databases data source, a
\* Read that ended without error wrote a list with one element per object
\* of the server's list response, in the order of the response, element i
\* carrying the attributes of object i (the bucket value of a partition
\* template as the JSON text of the server's object); an empty response
\* gives an empty list; a list request that failed (no response, or a
\* status other than 200) left an error diagnostic, and a Read that ended
\* with an error wrote no state.
C24_ListDataSources ==
    ListedRead =>
        /\ ListFailed => last.diags # <<>>
        /\ ~Ok => last.data = None
        /\ Ok => /\ last.data # None
                 /\ Len(last.data[1]) = Len(ListAnswered)
                 /\ \A i \in DOMAIN ListAnswered :
                       IF managed = "token"
                       THEN TokenListed(last.data[1][i], ListAnswered[i])
                       ELSE DatabaseAsOnServer(last.data[1][i], ListAnswered[i])

C24_Witness ==
    /\ ListedRead /\ Ok /\ managed = "token"
    /\ last.data # None
    /\ Len(last.data[1]) = 2
    /\ last.data[1][1].description # last.data[1][2].description
    /\ last.data[1][1].permissions = None
    /\ last.data[1][2].permissions # None
    /\ Len(last.data[1][2].permissions[1]) = 2

(***************************************************************************)
(* Validation of partition templates.                                      *)
(***************************************************************************)
Count(parts, types) == Cardinality({i \in DOMAIN parts : parts[i].type \in types})

\* at most 7 tag and bucket parts, at most 1 time part, no other type
WithinLimits(pt) ==
    \/ pt = None
    \/ /\ Count(pt[1], {"tag", "bucket"}) <= 7
       /\ Count(pt[1], {"time"}) <= 1
       /\ \A i \in DOMAIN pt[1] : pt[1][i].type \in PartTypes

Validated == last.op = "Validate"

CreateSent == last.op = "Create" /\ last.calls # <<>>

\* C25: a partition template that passes validation has at most 7 tag and
\* bucket parts, at most 1 time part and only parts of type bucket, tag or
\* time; and a Create request is only sent for such a template.
C25_TemplateLimits ==
    /\ (Validated /\ last.diags = <<>>) => WithinLimits(last.plan[1].partition_template)
    /\ CreateSent => WithinLimits(last.plan[1].partition_template)

(***************************************************************************)
(* Mapping of partition templates.                                         *)
(***************************************************************************)
Mapped == last.op = "getPartitionTemplate"

MappedFrom == last.plan[1].partitionTemplate

MappedTo == last.data[1].partition_template

\* the parts of a template are parts the API describes: a tag or a time
\* with a string, a bucket with an object
Conforming(pt) ==
    \/ impl = "sdk"
    \/ \A i \in DOMAIN pt :
          \/ pt[i].type \in {"tag", "time"} /\ pt[i].vkind = "string"
          \/ pt[i].type = "bucket" /\ pt[i].vkind = "object"

PartsKept ==
    (MappedFrom # None /\ Conforming(MappedFrom[1]))
        => /\ MappedTo # None
           /\ IF impl = "sdk" THEN SamePartsSdk(MappedTo[1], MappedFrom[1])
              ELSE SameParts(MappedTo[1], MappedFrom[1])

\* C26 as claimed: the mapping keeps the number, the order, the types and
\* the values of the parts, and a nil template maps to a null list.
C26_TemplatePreserved ==
    Mapped => /\ PartsKept
              /\ MappedFrom = None => MappedTo = None

\* C26: for every template of time, tag and bucket parts the mapping keeps
\* the number of parts, and part i of the result has the type and the value
\* of part i of the input (the value of a bucket part as the JSON text of
\* its object); a nil template maps to a null list in the generated-client
\* generation and to an empty list in the internal-SDK generation.
C26_TemplateMapped ==
    Mapped => /\ PartsKept
              /\ (MappedFrom = None /\ impl = "oapi") => MappedTo = None
              /\ (MappedFrom = None /\ impl = "sdk") => MappedTo = Some(<<>>)

C26_Witness ==
    /\ Mapped /\ impl = "oapi" /\ MappedFrom # None /\ MappedTo # None
    /\ Len(MappedFrom[1]) = 3 /\ Len(MappedTo[1]) = 3
    /\ MappedFrom[1][1].type = "bucket" /\ MappedFrom[1][2].type = "tag"
    /\ MappedFrom[1][3].type = "time"

(***************************************************************************)
(* Configure of resources and data sources.                                *)
(***************************************************************************)
ResourceConfigured ==
    last.op \in {"DatabaseResource.Configure", "TokenResource.Configure",
                 "TokenDataSource.Configure"}

ExpectedType ==
    IF last.op = "DatabaseResource.Configure" THEN "influxdb3.Client"
    ELSE "provider.providerData"

Given == last.plan[1].pd

Before == last.plan[1].before

After == last.data[1]

\* C27: Configure of a resource or data source given nil adds no diagnostic
\* and leaves the instance as it was, a new instance without client; given
\* a value of an unexpected type it adds an error diagnostic and leaves the
\* instance as it was; given a value of the expected type it adds no
\* diagnostic and sets the client (and, where the instance has them, the
\* account id and the cluster id) to those of the value.
C27_ResourceConfigure ==
    ResourceConfigured =>
        /\ Given.type = "nil" => (last.diags = <<>> /\ After = Before)
        /\ Given.type \notin {"nil", ExpectedType}
              => (Len(last.diags) = 1 /\ After = Before)
        /\ After.client # None => Given.type = ExpectedType \/ Before.client # None
        /\ (Given.type = ExpectedType /\ impl = "sdk")
              => (last.diags = <<>> /\ After.client = Given.value)
        /\ (Given.type = ExpectedType /\ impl = "oapi")
              => /\ last.diags = <<>>
                 /\ After.client = Some(Given.value[1].client)
                 /\ After.accountID = Given.value[1].accountID
                 /\ After.clusterID = Given.value[1].clusterID

C27_Witness ==
    /\ last.op = "TokenResource.Configure" /\ Given.type = "influxdb3.Client"
    /\ Before = NewTokenResource /\ After.client = None /\ last.diags # <<>>

(***************************************************************************)
(* Token ids that are not UUIDs.                                           *)
(***************************************************************************)
\* the ids the server issues are UUIDs; the other id of the model is not
IssuedIds == {TokenIds[n] : n \in DOMAIN TokenIds}

ValidationDiag == "Validation error. Ensure the Id is in UUID format."

RejectedUnsent ==
    /\ Len(last'.diags) = 1 /\ last'.diags[1].summary = ValidationDiag
    /\ last'.calls = <<>>
    /\ srvTokens' = srvTokens

\* C28: a Read, Update or Delete of the token resource of the later
\* provider whose id is not a UUID, and a Read of its token data source
\* whose configured id is not a UUID, adds the validation error diagnostic,
\* sends no request and leaves the Terraform state as it was (null for the
\* data source).
C28_NonUuidRejected ==
    [][/\ ((RunTokenRead \/ RunTokenDelete) /\ tokState[1].id \notin IssuedIds)
             => (RejectedUnsent /\ tokState' = tokState)
       /\ (RunTokenUpdate /\ Head(pending).plan[1].id \notin IssuedIds)
             => (RejectedUnsent /\ tokState' = tokState)
       /\ (RunTokenDataSourceRead /\ last'.plan[1].id \notin IssuedIds)
             => (RejectedUnsent /\ last'.data = None /\ tokState' = tokState)]_vars

C28_Witness ==
    /\ impl = "oapi" /\ managed = "token" /\ last.op = "Update"
    /\ last.plan # None /\ tokState # None
    /\ last.plan[1].id = "not-a-uuid" /\ tokState[1].id = "not-a-uuid"
    /\ Len(srvTokens) = 1
    /\ last.diags = <<UuidDiag>> /\ last.calls = <<>>

(***************************************************************************)
(* Error statuses in the generated-client generation.                      *)
(***************************************************************************)
GeneratedStep ==
    \/ RunTokenCreate \/ RunTokenCreateEarlier \/ RunTokenRead \/ RunTokenUpdate
    \/ RunTokenDelete \/ RunDatabasesDataSourceRead

\* the step sent a request that was answered with a status other than the
\* one the operation succeeds on
ErrorStatus(l) ==
    /\ l.calls # <<>> /\ ~l.calls[1].resp.transport
    /\ l.calls[1].resp.status # (IF l.op = "Delete" THEN StatusNoContent ELSE StatusOK)

\* the diagnostic of an error status, as the claim describes it
Described(l) ==
    LET resp == l.calls[1].resp
        d == l.diags[1]
    IN  /\ Len(l.diags) = 1
        /\ IF resp.status \notin TypedErrorStatuses
           THEN d.summary = "Error formatting error response"
           ELSE IF resp.error = None
           THEN d.detail = <<"HTTP Status Code: ", ToString(resp.status)>>
           ELSE d.detail = <<"HTTP Status Code: ", ToString(resp.status),
                             "Error Code: ", ToString(resp.error[1].code),
                             "Error Message: ", resp.error[1].message>>

\* C29: an operation of the generated-client generation that is answered
\* with a non-success status does not crash, adds one error diagnostic and
\* writes no state; the diagnostic holds the status code, the error code and
\* the message of a typed error body, the status code alone when the typed
\* body is nil, and is 'Error formatting error response' when the response
\* type has no field for the status.
C29_ErrorStatusReported ==
    [][(GeneratedStep /\ ErrorStatus(last'))
          => /\ ~last'.panicked
             /\ Described(last')
             /\ tokState' = tokState
             /\ last'.data = None]_vars

(***************************************************************************)
(* The limits sent in create and update requests.                          *)
(***************************************************************************)
LimitsStep == RunDatabaseCreate \/ RunDatabaseUpdate

\* the 32-bit number sent is the planned value itself when that is within
\* the signed 32-bit range, and differs from it by a multiple of 2^32 otherwise
Narrowed(sent, planned) ==
    /\ sent = I64(0, planned.lo)
    /\ planned.hi = 0 => sent = planned

Answered200(l) ==
    /\ ~l.calls[1].resp.transport /\ l.calls[1].resp.status = StatusOK
    /\ l.calls[1].resp.body # None

\* C30: Create and Update of a database of the generated-client generation
\* send max_tables and max_columns_per_table equal to the planned values
\* when these are within the signed 32-bit range, and narrowed to 32 bits
\* (the planned value modulo 2^32) otherwise; the request is sent in both
\* cases and neither adds a diagnostic: an answer of 200 ends the operation
\* without one.
C30_LimitsNarrowed ==
    [][LimitsStep
          => /\ last'.calls # <<>>
             /\ Narrowed(last'.calls[1].req.body[1].maxTables,
                         Head(pending).plan[1].max_tables)
             /\ Narrowed(last'.calls[1].req.body[1].maxColumnsPerTable,
                         Head(pending).plan[1].max_columns_per_table)
             /\ Answered200(last') => Ok']_vars

C30_Witness ==
    /\ impl = "oapi" /\ managed = "database" /\ last.op = "Update" /\ Ok
    /\ last.plan # None /\ last.calls # <<>>
    /\ last.plan[1].max_tables = I64(1, -1)
    /\ last.calls[1].req.body[1].maxTables = I64(0, -1)
    /\ last.plan[1].max_columns_per_table = I64(0, 200)
    /\ last.calls[1].req.body[1].maxColumnsPerTable = I64(0, 200)

====
